---- MODULE Spec2Model ----
(***************************************************************************)
(* Availability grid engine of the plan-cake backend: event creation and   *)
(* editing (api/event), availability submission, read-back and removal     *)
(* (api/availability), over the tables of api/models.py.                    *)
(*                                                                         *)
(* A date is a day ordinal, a time of day is a number of minutes since     *)
(* midnight, a naive datetime is the pair (day, time).  A table is the set *)
(* of its rows; a row is identified by the columns of its unique           *)
(* constraint, the AutoField keys are left out.                            *)
(*                                                                         *)
(* Accounts and sessions (api/auth, api/utils.py, api/tasks.py) are        *)
(* modelled beside it: datetime.now() is a number of seconds, a password   *)
(* is the sequence of its characters, a value of uuid4 is a number never   *)
(* handed out before.                                                      *)
(***************************************************************************)
EXTENDS Integers, Sequences, FiniteSets, TLC

(***************************************************************************)
(* Bounds of the model                                                     *)
(***************************************************************************)
\* dates (and weekdays) used in requests are 0..MaxDay
MaxDay == 1
\* add_availability requests served at the same time
NumTxns == 2

(***************************************************************************)
(* Program constants                                                       *)
(***************************************************************************)
MAX_HOUR == 24
MIN_SLOTS == 4
SLOT_MINUTES == 15
LAST_MINUTE == 1439
URL_CODE_EXP_DAYS == 14
\* api.settings defines the next two outside the files at hand: any span of
\* days in Days is within MAX_EVENT_DAYS, and generate_code tries twice
MAX_EVENT_DAYS == 64
RAND_URL_CODE_ATTEMPTS == 2

(***************************************************************************)
(* Input domains                                                           *)
(***************************************************************************)
Users == {"u1", "u2"}
Creators == {"u1"}
NoUser == "none"
EventIds == {1}
Days == 0..MaxDay
Hours == {MAX_HOUR - 2, MAX_HOUR - 1, MAX_HOUR}
CustomCodes == {"c1", "api", "a b"}
RandomCodes == {"c1"}
UnknownCode == "zz"
NoCode == ""
MalformedCodes == {"a b"}
RESERVED_KEYWORDS ==
    {"api", "dashboard", "forgot-password", "login", "new-event",
     "reset-password", "register", "verify-email"}
SPECIFIC == "SPECIFIC"
GENERIC == "GENERIC"

VARIABLES
    UserEvent,                \* rows of api_userevent
    UrlCode,                  \* rows of api_urlcode
    EventDateTimeslot,        \* rows of api_eventdatetimeslot
    EventWeekdayTimeslot,     \* rows of api_eventweekdaytimeslot
    EventParticipant,         \* rows of api_eventparticipant
    EventDateAvailability,    \* rows of api_eventdateavailability
    EventWeekdayAvailability, \* rows of api_eventweekdayavailability
    today,                    \* the current date
    txn,                      \* the add_availability requests in progress
    ret,                      \* what the function called last returned
    UserAccount,              \* rows of api_useraccount
    UnverifiedUserAccount,    \* rows of api_unverifieduseraccount
    PasswordResetToken,       \* rows of api_passwordresettoken
    UserSession,              \* rows of api_usersession
    clock,                    \* datetime.now(), in seconds
    advances,                 \* how often the clock has been advanced
    uuids                     \* how many values uuid.uuid4() has returned

tables == <<UserEvent, UrlCode, EventDateTimeslot, EventWeekdayTimeslot,
            EventParticipant, EventDateAvailability, EventWeekdayAvailability>>
accounts == <<UserAccount, UnverifiedUserAccount, PasswordResetToken,
              UserSession, clock, advances, uuids>>
vars == <<UserEvent, UrlCode, EventDateTimeslot, EventWeekdayTimeslot,
          EventParticipant, EventDateAvailability, EventWeekdayAvailability,
          today, txn, ret, UserAccount, UnverifiedUserAccount,
          PasswordResetToken, UserSession, clock, advances, uuids>>

\* no account, no session, the clock at its origin
NoAccounts ==
    /\ UserAccount = {}
    /\ UnverifiedUserAccount = {}
    /\ PasswordResetToken = {}
    /\ UserSession = {}
    /\ clock = 0
    /\ advances = 0
    /\ uuids = 0

\* the database as one value
DB ==
    [UserEvent |-> UserEvent, UrlCode |-> UrlCode,
     EventDateTimeslot |-> EventDateTimeslot,
     EventWeekdayTimeslot |-> EventWeekdayTimeslot,
     EventParticipant |-> EventParticipant,
     EventDateAvailability |-> EventDateAvailability,
     EventWeekdayAvailability |-> EventWeekdayAvailability]

(***************************************************************************)
(* api/event/utils.py                                                      *)
(***************************************************************************)
RECURSIVE TimerangeLoop(_, _)
TimerangeLoop(current, end_dt) ==
    IF current < end_dt
    THEN <<current>> \o TimerangeLoop(current + SLOT_MINUTES, end_dt)
    ELSE <<>>

\* a range that always runs to the last minute of the day
timerangeToMidnight(start_hour, end_hour) ==
    TimerangeLoop(start_hour * 60, LAST_MINUTE)

\* a range that yields the end hour as well
timerangeInclusive(start_hour, end_hour) ==
    TimerangeLoop(start_hour * 60, end_hour * 60 + 1)

\* the times yielded by timerange(start_hour, end_hour), in order
timerange(start_hour, end_hour) ==
    LET start_time == start_hour * 60
        end_time == IF end_hour # 24 THEN end_hour * 60 ELSE LAST_MINUTE
    IN TimerangeLoop(start_time, end_time)

RECURSIVE daterange(_, _)
daterange(current, end_date) ==
    IF current <= end_date
    THEN <<current>> \o daterange(current + 1, end_date)
    ELSE <<>>

Range(s) == {s[i] : i \in 1..Len(s)}

\* a validation that takes any start date
validate_date_input_any_start(start_date, end_date, start_hour, end_hour, earliest_date) ==
    (IF start_date > end_date THEN {"end_date"} ELSE {})
    \cup (IF start_hour >= end_hour THEN {"end_hour"} ELSE {})
    \cup (IF end_date - start_date > MAX_EVENT_DAYS THEN {"end_date"} ELSE {})

\* the keys of the errors dict
validate_date_input(start_date, end_date, start_hour, end_hour, earliest_date) ==
    (IF start_date < earliest_date THEN {"start_date"} ELSE {})
    \cup (IF start_date > end_date THEN {"end_date"} ELSE {})
    \cup (IF start_hour >= end_hour THEN {"end_hour"} ELSE {})
    \cup (IF end_date - start_date > MAX_EVENT_DAYS THEN {"end_date"} ELSE {})

validate_weekday_input(start_weekday, end_weekday, start_hour, end_hour) ==
    (IF start_weekday > end_weekday THEN {"end_weekday"} ELSE {})
    \cup (IF start_hour >= end_hour THEN {"end_hour"} ELSE {})

check_code_available(db, code, now) ==
    ~ \E c \in db.UrlCode :
        c.url_code = code /\ c.last_used >= now - URL_CODE_EXP_DAYS

\* TRUE when check_custom_code returns an error message
check_custom_code(db, code, now) ==
    \/ code \in MalformedCodes
    \/ code \in RESERVED_KEYWORDS
    \/ ~check_code_available(db, code, now)

\* the code returned when rnd are the random strings drawn, in order;
\* "" when the exception is raised
RECURSIVE GenerateLoop(_, _, _, _)
GenerateLoop(db, rnd, i, now) ==
    IF i > RAND_URL_CODE_ATTEMPTS THEN NoCode
    ELSE IF check_code_available(db, rnd[i], now) THEN rnd[i]
    ELSE GenerateLoop(db, rnd, i + 1, now)

\* the codes generate_code may return
generate_code(db, now) ==
    {GenerateLoop(db, rnd, 1, now) :
        rnd \in [1..RAND_URL_CODE_ATTEMPTS -> RandomCodes]}

(***************************************************************************)
(* Query helpers                                                           *)
(***************************************************************************)
SlotLess(a, b) == a.day < b.day \/ (a.day = b.day /\ a.time < b.time)

\* order_by("timeslot") / order_by("weekday", "timeslot")
RECURSIVE OrderBySlot(_)
OrderBySlot(S) ==
    IF S = {} THEN <<>>
    ELSE LET m == CHOOSE x \in S : \A y \in S \ {x} : SlotLess(x, y)
         IN <<m>> \o OrderBySlot(S \ {m})

\* UserEvent.objects.get(url_codes=event_code): the set of matching rows
EventByCode(db, event_code) ==
    {e \in db.UserEvent :
        \E c \in db.UrlCode :
            c.url_code = event_code /\ c.user_event = e.user_event_id}

Timeslots(db, event) ==
    IF event.date_type = SPECIFIC
    THEN {t \in db.EventDateTimeslot : t.user_event = event.user_event_id}
    ELSE {t \in db.EventWeekdayTimeslot : t.user_event = event.user_event_id}

Availabilities(db, event) ==
    IF event.date_type = SPECIFIC
    THEN {a \in db.EventDateAvailability : a.user_event = event.user_event_id}
    ELSE {a \in db.EventWeekdayAvailability : a.user_event = event.user_event_id}

Participants(db, event) ==
    {p \in db.EventParticipant : p.user_event = event.user_event_id}

\* the event of a request in progress
TheEventOf(t) == CHOOSE e \in UserEvent :
    \E c \in UrlCode :
        c.url_code = t.r.event_code /\ c.user_event = e.user_event_id

\* filter(event_participant=participant) on the availability table
EntriesOf(db, event, user) ==
    {a \in Availabilities(db, event) : a.user_account = user}

\* a block whose writes stay when an exception leaves it
AtomicNoRollback(before, partial) == partial

\* transaction.atomic(): an exception inside the block discards its writes
Atomic(before, partial) == before

Response(db, status, err, out) ==
    [db |-> db, status |-> status, err |-> err, out |-> out]

NoOut == <<>>
NoRet == <<>>
GENERIC_ERR_RESPONSE(db) == Response(db, 500, {"general"}, NoOut)

\* the responses of a transaction whose storage raises at a write statement:
\* partials[k] is the database when the k-th write statement is reached
Raised(db, partials) ==
    {GENERIC_ERR_RESPONSE(Atomic(db, partials[k])) : k \in 1..Len(partials)}

SlotKey(t) == [day |-> t.day, time |-> t.time]

\* a bulk_create that stores no row
BulkCreateTimeslotsNone(db, event_id, date_type, to_add) ==
    [raised |-> "", db |-> db]

\* EventXTimeslot.objects.bulk_create under the unique constraint
BulkCreateTimeslots(db, event_id, date_type, to_add) ==
    LET rows == {[user_event |-> event_id, day |-> k.day, time |-> k.time] :
                    k \in to_add}
        table == IF date_type = SPECIFIC THEN db.EventDateTimeslot
                 ELSE db.EventWeekdayTimeslot
    IN IF rows \cap table # {}
       THEN [raised |-> "IntegrityError", db |-> db]
       ELSE [raised |-> "",
             db |-> IF date_type = SPECIFIC
                    THEN [db EXCEPT !.EventDateTimeslot = @ \cup rows]
                    ELSE [db EXCEPT !.EventWeekdayTimeslot = @ \cup rows]]

\* the (day, time) pairs of the nested loops over the days and timerange
SlotGrid(days, times) ==
    {[day |-> days[i], time |-> times[j]] :
        i \in 1..Len(days), j \in 1..Len(times)}

(***************************************************************************)
(* api/event/views.py: creation                                            *)
(***************************************************************************)
\* the AutoField key of the next event
NewEventId(db) == Cardinality(db.UserEvent) + 1

\* UrlCode.objects.update_or_create(url_code=..., defaults={user_event})
UpdateOrCreateCode(db, url_code, event_id, now) ==
    [db EXCEPT !.UrlCode =
        {c \in @ : c.url_code # url_code}
        \cup {[url_code |-> url_code, user_event |-> event_id,
               last_used |-> now]}]

\* the transaction of create_date_event / create_week_event
CreateTxn(db, user, r, date_type, url_code, days, now) ==
    LET id == NewEventId(db)
        s1 == [db EXCEPT !.UserEvent = @ \cup
                 {[user_event_id |-> id, user_account |-> user,
                   title |-> r.title, date_type |-> date_type,
                   duration |-> r.duration, time_zone |-> r.time_zone]}]
        s2 == UpdateOrCreateCode(s1, url_code, id, now)
        s3 == BulkCreateTimeslots(s2, id, date_type,
                 SlotGrid(days, timerange(r.start_hour, r.end_hour)))
    IN Raised(db, <<db, s1, s2>>)
       \cup (IF s3.raised # "" THEN {GENERIC_ERR_RESPONSE(Atomic(db, s2))}
             ELSE {Response(s3.db, 201, {}, [event_code |-> url_code])})

\* the URL code of the new event: the custom code or a generated one
CreateWithCode(db, user, r, date_type, days, now) ==
    IF r.custom_code # NoCode
    THEN IF check_custom_code(db, r.custom_code, now)
         THEN {Response(db, 400, {"custom_code"}, NoOut)}
         ELSE CreateTxn(db, user, r, date_type, r.custom_code, days, now)
    ELSE UNION {IF code = NoCode THEN {GENERIC_ERR_RESPONSE(db)}
                ELSE CreateTxn(db, user, r, date_type, code, days, now) :
                    code \in generate_code(db, now)}

create_date_event(db, user, r, user_date) ==
    LET errors == validate_date_input(r.start_date, r.end_date,
                                      r.start_hour, r.end_hour, user_date)
    IN IF errors # {} THEN {Response(db, 400, errors, NoOut)}
       ELSE CreateWithCode(db, user, r, SPECIFIC,
                           daterange(r.start_date, r.end_date), user_date)

create_week_event(db, user, r, now) ==
    LET errors == validate_weekday_input(r.start_weekday, r.end_weekday,
                                         r.start_hour, r.end_hour)
    IN IF errors # {} THEN {Response(db, 400, errors, NoOut)}
       ELSE CreateWithCode(db, user, r, GENERIC,
                           daterange(r.start_weekday, r.end_weekday), now)

(***************************************************************************)
(* api/availability/utils.py                                               *)
(***************************************************************************)
\* raised: "" when the grid is returned, else the exception
get_event_grid(db, event) ==
    LET timeslots == OrderBySlot(Timeslots(db, event))
        count == Len(timeslots)
    IN IF count = 0
       THEN [raised |-> "AttributeError", timeslots |-> timeslots,
             num_days |-> 0, num_slots |-> 0]
       ELSE LET num_days == timeslots[count].day - timeslots[1].day + 1
            IN IF count % num_days # 0
               THEN [raised |-> "EventGridDimensionError",
                     timeslots |-> timeslots,
                     num_days |-> num_days, num_slots |-> 0]
               ELSE [raised |-> "", timeslots |-> timeslots,
                     num_days |-> num_days, num_slots |-> count \div num_days]

check_name_available(db, event, user, display_name) ==
    IF user # NoUser
    THEN ~ \E p \in db.EventParticipant :
             /\ p.user_account # user
             /\ p.user_event = event.user_event_id
             /\ p.display_name = display_name
    ELSE ~ \E p \in db.EventParticipant :
             /\ p.user_event = event.user_event_id
             /\ p.display_name = display_name

\* datetime(2012, 1, weekday + 1, hour, minute): the day of January 2012
get_weekday_date(weekday, timeslot) ==
    [day |-> weekday + 1, time |-> timeslot]

(***************************************************************************)
(* api/availability/views.py: add_availability                             *)
(***************************************************************************)
RECURSIVE Flatten(_)
Flatten(availability) ==
    IF availability = <<>> THEN <<>>
    ELSE Head(availability) \o Flatten(Tail(availability))

\* the unique constraints of EventParticipant, for a row to be written
ParticipantConflict(rows, row) ==
    \E p \in rows :
        /\ p.user_event = row.user_event
        /\ \/ p.user_account = row.user_account
           \/ p.display_name = row.display_name

\* get_or_create alone: an existing row stays as it is
UpsertParticipantKeep(db, event, user, display_name, time_zone) ==
    LET row == [user_event |-> event.user_event_id, user_account |-> user,
                display_name |-> display_name, time_zone |-> time_zone]
        existing == {p \in db.EventParticipant :
                        /\ p.user_event = event.user_event_id
                        /\ p.user_account = user}
    IN IF existing # {} THEN [raised |-> "", new |-> FALSE, db |-> db]
       ELSE IF ParticipantConflict(db.EventParticipant, row)
       THEN [raised |-> "IntegrityError", db |-> db, new |-> TRUE]
       ELSE [raised |-> "", new |-> TRUE,
             db |-> [db EXCEPT !.EventParticipant = @ \cup {row}]]

\* an upsert that reports every participant as created
UpsertParticipantAlwaysNew(db, event, user, display_name, time_zone) ==
    LET row == [user_event |-> event.user_event_id, user_account |-> user,
                display_name |-> display_name, time_zone |-> time_zone]
        existing == {p \in db.EventParticipant :
                        /\ p.user_event = event.user_event_id
                        /\ p.user_account = user}
        others == db.EventParticipant \ existing
    IN IF ParticipantConflict(others, row)
       THEN [raised |-> "IntegrityError", db |-> db, new |-> TRUE]
       ELSE [raised |-> "", new |-> TRUE,
             db |-> [db EXCEPT !.EventParticipant = others \cup {row}]]

\* get_or_create followed by the update of an existing row
UpsertParticipant(db, event, user, display_name, time_zone) ==
    LET row == [user_event |-> event.user_event_id, user_account |-> user,
                display_name |-> display_name, time_zone |-> time_zone]
        existing == {p \in db.EventParticipant :
                        /\ p.user_event = event.user_event_id
                        /\ p.user_account = user}
        others == db.EventParticipant \ existing
    IN IF ParticipantConflict(others, row)
       THEN [raised |-> "IntegrityError", db |-> db, new |-> existing = {}]
       ELSE [raised |-> "", new |-> existing = {},
             db |-> [db EXCEPT !.EventParticipant = others \cup {row}]]

\* EventXAvailability.objects.filter(event_participant=participant).delete()
DeleteAvailabilities(db, event, user) ==
    IF event.date_type = SPECIFIC
    THEN [db EXCEPT !.EventDateAvailability =
            {a \in @ : ~(a.user_event = event.user_event_id
                         /\ a.user_account = user)}]
    ELSE [db EXCEPT !.EventWeekdayAvailability =
            {a \in @ : ~(a.user_event = event.user_event_id
                         /\ a.user_account = user)}]

\* the rows appended by the loop over enumerate(timeslots)
NewAvailabilities(event, user, timeslots, flattened_availability) ==
    {[user_event |-> event.user_event_id, user_account |-> user,
      day |-> timeslots[i].day, time |-> timeslots[i].time,
      is_available |-> flattened_availability[i]] : i \in 1..Len(timeslots)}

SameEntry(a, b) ==
    /\ a.user_event = b.user_event /\ a.user_account = b.user_account
    /\ a.day = b.day /\ a.time = b.time

\* bulk_create under the unique constraint (participant, timeslot)
BulkCreateAvailabilities(db, event, rows) ==
    LET table == Availabilities(db, event)
    IN IF \E a \in table, b \in rows : SameEntry(a, b)
       THEN [raised |-> "IntegrityError", db |-> db]
       ELSE [raised |-> "",
             db |-> IF event.date_type = SPECIFIC
                    THEN [db EXCEPT !.EventDateAvailability = @ \cup rows]
                    ELSE [db EXCEPT !.EventWeekdayAvailability = @ \cup rows]]

\* a submission that merges into the stored rows: the participant's rows
\* stay and only the rows of timeslots without one are inserted
AddAvailabilityWritesMerge(db, event, user, r, timeslots) ==
    LET s1 == UpsertParticipant(db, event, user, r.display_name, r.time_zone)
        rows == NewAvailabilities(event, user, timeslots,
                                  Flatten(r.availability))
        fresh == {b \in rows :
                    ~ \E a \in Availabilities(s1.db, event) : SameEntry(a, b)}
        s3 == BulkCreateAvailabilities(s1.db, event, fresh)
    IN IF s1.raised # "" THEN {GENERIC_ERR_RESPONSE(Atomic(db, db))}
       ELSE {Response(s3.db, 201, {}, [new |-> s1.new])}

\* the writes of add_availability after validation
AddAvailabilityWrites(db, event, user, r, timeslots) ==
    LET s1 == UpsertParticipant(db, event, user, r.display_name, r.time_zone)
        s2 == DeleteAvailabilities(s1.db, event, user)
        flattened_availability == Flatten(r.availability)
        s3 == BulkCreateAvailabilities(s2, event,
                NewAvailabilities(event, user, timeslots,
                                  flattened_availability))
    IN IF s1.raised # "" THEN {GENERIC_ERR_RESPONSE(Atomic(db, db))}
       ELSE Raised(db, <<db, s1.db, s2>>)
            \cup (IF Len(flattened_availability) < Len(timeslots)
                  THEN {GENERIC_ERR_RESPONSE(Atomic(db, s2))}
                  ELSE IF s3.raised # ""
                  THEN {GENERIC_ERR_RESPONSE(Atomic(db, s2))}
                  ELSE {Response(s3.db, 201, {}, [new |-> s1.new])})

\* a view that compares the number of days alone
add_availability_days_only(db, user, r) ==
    LET found == EventByCode(db, r.event_code)
    IN IF found = {} THEN {Response(db, 404, {"event_code"}, NoOut)}
       ELSE
       LET user_event == CHOOSE e \in found : TRUE
           grid == get_event_grid(db, user_event)
       IN IF ~check_name_available(db, user_event, user, r.display_name)
          THEN {Response(db, 400, {"display_name"}, NoOut)}
          ELSE IF grid.raised # ""
          THEN {GENERIC_ERR_RESPONSE(Atomic(db, db))}
          ELSE IF Len(r.availability) # grid.num_days
          THEN {Response(Atomic(db, db), 400, {"availability"}, NoOut)}
          ELSE AddAvailabilityWrites(db, user_event, user, r, grid.timeslots)

add_availability(db, user, r) ==
    LET found == EventByCode(db, r.event_code)
    IN IF found = {} THEN {Response(db, 404, {"event_code"}, NoOut)}
       ELSE
       LET user_event == CHOOSE e \in found : TRUE
           grid == get_event_grid(db, user_event)
       IN IF ~check_name_available(db, user_event, user, r.display_name)
          THEN {Response(db, 400, {"display_name"}, NoOut)}
          ELSE IF grid.raised # ""
          THEN {GENERIC_ERR_RESPONSE(Atomic(db, db))}
          ELSE IF Len(r.availability) # grid.num_days
          THEN {Response(Atomic(db, db), 400, {"availability"}, NoOut)}
          ELSE IF \E i \in 1..Len(r.availability) :
                    Len(r.availability[i]) # grid.num_slots
          THEN {Response(Atomic(db, db), 400, {"availability"}, NoOut)}
          ELSE AddAvailabilityWrites(db, user_event, user, r, grid.timeslots)

(***************************************************************************)
(* api/availability/views.py: read-back and removal                        *)
(***************************************************************************)
get_self_availability(db, user, event_code) ==
    LET found == EventByCode(db, event_code)
    IN IF found = {} THEN Response(db, 404, {"event_code"}, NoOut)
       ELSE
       LET event == CHOOSE e \in found : TRUE
           participant == {p \in Participants(db, event) :
                              p.user_account = user}
           availabilities ==
               OrderBySlot({a \in Availabilities(db, event) :
                               a.user_account = user /\ a.is_available})
       IN IF participant = {} THEN Response(db, 400, {"general"}, NoOut)
          ELSE IF event.date_type = SPECIFIC
          THEN Response(db, 200, {},
                 [available_dates |->
                    [i \in 1..Len(availabilities) |->
                        [day |-> availabilities[i].day,
                         time |-> availabilities[i].time]]])
          \* availabilities[0] is read for the two print calls
          ELSE IF Len(availabilities) = 0 THEN GENERIC_ERR_RESPONSE(db)
          ELSE Response(db, 200, {},
                 [available_dates |->
                    [i \in 1..Len(availabilities) |->
                        get_weekday_date(availabilities[i].day,
                                         availabilities[i].time)]])

\* the order of display names under order_by
NameOrder == <<"ann", "bob">>

NameLess(a, b) ==
    \E i, j \in 1..Len(NameOrder) :
        i < j /\ NameOrder[i] = a /\ NameOrder[j] = b

\* order_by("event_participant__display_name") on a set of names
RECURSIVE SortNames(_)
SortNames(S) ==
    IF S = {} THEN <<>>
    ELSE LET m == CHOOSE x \in S : \A y \in S \ {x} : NameLess(x, y)
         IN <<m>> \o SortNames(S \ {m})

\* the sequences that list the elements of S once each: the orders in
\* which a query without order_by may return its rows
Orders(S) ==
    {q \in [1..Cardinality(S) -> S] : \A x \in S : \E i \in DOMAIN q : q[i] = x}

\* a dictionary entry that takes every name, available or not
AllNames(db, event, k) ==
    SortNames({p.display_name : p \in
        {x \in Participants(db, event) :
            \E a \in Availabilities(db, event) :
                a.user_account = x.user_account /\ SlotKey(a) = k}})

\* timeslot_dict[k]: the names appended for the rows of timeslot k, which
\* come in display-name order
AvailableNames(db, event, k) ==
    SortNames({p.display_name : p \in
        {x \in Participants(db, event) :
            \E a \in Availabilities(db, event) :
                /\ a.user_account = x.user_account
                /\ SlotKey(a) = k
                /\ a.is_available}})

\* the loop over timeslots[1:] that starts a new day when the date changes
RECURSIVE GroupLoop(_, _, _, _, _, _)
GroupLoop(db, event, timeslots, i, current_day, data) ==
    IF i > Len(timeslots) THEN Append(data, current_day)
    ELSE IF timeslots[i].day # timeslots[i - 1].day
    THEN GroupLoop(db, event, timeslots, i + 1,
                   <<AvailableNames(db, event, timeslots[i])>>,
                   Append(data, current_day))
    ELSE GroupLoop(db, event, timeslots, i + 1,
                   Append(current_day, AvailableNames(db, event, timeslots[i])),
                   data)

\* a grid of lists with the days inside the slots
EmptyGridTransposed(num_days, num_times) ==
    [s \in 1..num_times |-> [d \in 1..num_days |-> <<>>]]

\* [[[] for _ in range(num_times)] for _ in range(num_days)]
EmptyGrid(num_days, num_times) ==
    [d \in 1..num_days |-> [s \in 1..num_times |-> <<>>]]

\* the responses of get_all_availability: event.participants.all() has no
\* order_by, its rows come in any order
get_all_availability(db, user, event_code) ==
    LET found == EventByCode(db, event_code)
    IN IF found = {} THEN {Response(db, 404, {"event_code"}, NoOut)}
       ELSE
       LET event == CHOOSE e \in found : TRUE
           is_creator == event.user_account = user
           participants == Participants(db, event)
           grid == get_event_grid(db, event)
           \* sorted(timeslot_dict.keys())
           timeslots ==
               OrderBySlot({SlotKey(a) : a \in
                   {x \in Availabilities(db, event) :
                       \E p \in participants :
                           p.user_account = x.user_account}})
       IN IF participants = {}
          THEN IF grid.raised # "" THEN {GENERIC_ERR_RESPONSE(db)}
               ELSE {Response(db, 200, {},
                       [is_creator |-> is_creator, participants |-> <<>>,
                        availability |->
                            EmptyGrid(grid.num_days, grid.num_slots)])}
          \* timeslots[0] of an empty list
          ELSE IF Len(timeslots) = 0 THEN {GENERIC_ERR_RESPONSE(db)}
          ELSE {Response(db, 200, {},
                  [is_creator |-> is_creator,
                   participants |-> [i \in DOMAIN q |-> q[i].display_name],
                   availability |->
                       GroupLoop(db, event, timeslots, 2,
                                 <<AvailableNames(db, event, timeslots[1])>>,
                                 <<>>)]) :
                    q \in Orders(participants)}

\* a delete of the participant row that leaves its availability rows
DeleteParticipantNoCascade(db, p) ==
    [db EXCEPT !.EventParticipant = @ \ {p}]

\* EventParticipant.delete() with the cascade to both availability tables
DeleteParticipant(db, p) ==
    [db EXCEPT
        !.EventParticipant = @ \ {p},
        !.EventDateAvailability =
            {a \in @ : ~(a.user_event = p.user_event
                         /\ a.user_account = p.user_account)},
        !.EventWeekdayAvailability =
            {a \in @ : ~(a.user_event = p.user_event
                         /\ a.user_account = p.user_account)}]

remove_self_availability(db, user, event_code) ==
    LET found == EventByCode(db, event_code)
    IN IF found = {} THEN {Response(db, 404, {"event_code"}, NoOut)}
       ELSE
       LET event == CHOOSE e \in found : TRUE
           participant == {p \in Participants(db, event) :
                              p.user_account = user}
       IN IF participant = {} THEN {Response(db, 400, {"general"}, NoOut)}
          ELSE {GENERIC_ERR_RESPONSE(db),
                Response(DeleteParticipant(db, CHOOSE p \in participant : TRUE),
                         200, {}, NoOut)}

\* a removal open to every caller
remove_availability_by_anyone(db, user, r) ==
    LET found == EventByCode(db, r.event_code)
    IN IF found = {} THEN {Response(db, 404, {"event_code"}, NoOut)}
       ELSE
       LET event == CHOOSE e \in found : TRUE
           participant == {p \in Participants(db, event) :
                              p.display_name = r.display_name}
       IN IF participant = {}
          THEN {Response(db, 404, {"general"}, NoOut)}
          ELSE {GENERIC_ERR_RESPONSE(db),
                Response(DeleteParticipant(db, CHOOSE p \in participant : TRUE),
                         200, {}, NoOut)}

remove_availability(db, user, r) ==
    LET found == EventByCode(db, r.event_code)
    IN IF found = {} THEN {Response(db, 404, {"event_code"}, NoOut)}
       ELSE
       LET event == CHOOSE e \in found : TRUE
           participant == {p \in Participants(db, event) :
                              p.display_name = r.display_name}
       IN IF event.user_account # user
          THEN {Response(db, 403, {"general"}, NoOut)}
          ELSE IF participant = {}
          THEN {Response(db, 404, {"general"}, NoOut)}
          ELSE {GENERIC_ERR_RESPONSE(db),
                Response(DeleteParticipant(db, CHOOSE p \in participant : TRUE),
                         200, {}, NoOut)}

(***************************************************************************)
(* api/event/views.py: editing                                             *)
(***************************************************************************)
\* event.save() after the assignment of title, duration and time_zone
SaveEvent(db, event, r) ==
    [db EXCEPT !.UserEvent =
        (@ \ {event}) \cup
        {[event EXCEPT !.title = r.title, !.duration = r.duration,
                       !.time_zone = r.time_zone]}]

\* a delete of timeslots that leaves their availability rows
DeleteTimeslotsNoCascade(db, event, to_delete) ==
    LET gone(x) == x.user_event = event.user_event_id
                   /\ SlotKey(x) \in to_delete
    IN IF event.date_type = SPECIFIC
       THEN [db EXCEPT !.EventDateTimeslot = {t \in @ : ~gone(t)}]
       ELSE [db EXCEPT !.EventWeekdayTimeslot = {t \in @ : ~gone(t)}]

\* an edit that deletes no timeslot
DeleteTimeslotsNone(db, event, to_delete) == db

\* EventXTimeslot.objects.filter(...).delete() with the cascade to the
\* availability rows of the deleted timeslots
DeleteTimeslots(db, event, to_delete) ==
    LET id == event.user_event_id
        gone(x) == x.user_event = id /\ SlotKey(x) \in to_delete
    IN IF event.date_type = SPECIFIC
       THEN [db EXCEPT
               !.EventDateTimeslot = {t \in @ : ~gone(t)},
               !.EventDateAvailability = {a \in @ : ~gone(a)}]
       ELSE [db EXCEPT
               !.EventWeekdayTimeslot = {t \in @ : ~gone(t)},
               !.EventWeekdayAvailability = {a \in @ : ~gone(a)}]

\* a backfill that marks the new timeslots available
ToAddAvailabilitiesAvailable(db, event, to_add) ==
    {[user_event |-> event.user_event_id, user_account |-> p.user_account,
      day |-> k.day, time |-> k.time, is_available |-> TRUE] :
        p \in Participants(db, event), k \in to_add}

\* the "unavailable" rows for the new timeslots of the current participants
ToAddAvailabilities(db, event, to_add) ==
    {[user_event |-> event.user_event_id, user_account |-> p.user_account,
      day |-> k.day, time |-> k.time, is_available |-> FALSE] :
        p \in Participants(db, event), k \in to_add}

\* the writes of edit_date_event / edit_week_event after validation
EditTxn(db, event, r, edited_timeslots) ==
    LET s1 == SaveEvent(db, event, r)
        existing_timeslots == {SlotKey(t) : t \in Timeslots(s1, event)}
        to_delete == existing_timeslots \ edited_timeslots
        to_add == edited_timeslots \ existing_timeslots
        s2 == DeleteTimeslots(s1, event, to_delete)
        s3 == BulkCreateTimeslots(s2, event.user_event_id, event.date_type,
                                  to_add)
        s4 == BulkCreateAvailabilities(s3.db, event,
                                       ToAddAvailabilities(s3.db, event, to_add))
    IN Raised(db, <<db, s1, s2>>)
       \cup (IF s3.raised # "" THEN {GENERIC_ERR_RESPONSE(Atomic(db, s2))}
             ELSE Raised(db, <<s3.db>>)
                  \cup (IF s4.raised # ""
                        THEN {GENERIC_ERR_RESPONSE(Atomic(db, s3.db))}
                        ELSE {Response(s4.db, 200, {},
                                [to_delete |-> to_delete,
                                 to_add |-> to_add])}))

EVENT_NOT_FOUND_ERROR(db) == Response(db, 404, {"general"}, NoOut)

\* a lookup by code and kind, whoever the caller is
AnyonesEventByCode(db, event_code, user, date_type) ==
    {e \in EventByCode(db, event_code) : e.date_type = date_type}

\* UserEvent.objects.get(url_codes=..., user_account=..., date_type=...)
OwnEventByCode(db, event_code, user, date_type) ==
    {e \in EventByCode(db, event_code) :
        e.user_account = user /\ e.date_type = date_type}

\* the earliest start date edit_date_event passes to validate_date_input
EarliestDate(existing_start_date, user_date) ==
    IF existing_start_date > user_date THEN existing_start_date
    ELSE user_date

edit_date_event(db, user, r, user_date) ==
    LET found == OwnEventByCode(db, r.event_code, user, SPECIFIC)
    IN IF found = {} THEN {EVENT_NOT_FOUND_ERROR(db)}
       ELSE
       LET event == CHOOSE e \in found : TRUE
           ordered == OrderBySlot(Timeslots(db, event))
       IN IF Len(ordered) = 0 THEN {GENERIC_ERR_RESPONSE(Atomic(db, db))}
          ELSE
          LET existing_start_date == ordered[1].day
              earliest_date == EarliestDate(existing_start_date, user_date)
              errors == validate_date_input(r.start_date, r.end_date,
                            r.start_hour, r.end_hour, earliest_date)
          IN IF errors # {} THEN {Response(db, 400, errors, NoOut)}
             ELSE EditTxn(db, event, r,
                    SlotGrid(daterange(r.start_date, r.end_date),
                             timerange(r.start_hour, r.end_hour)))

edit_week_event(db, user, r) ==
    LET found == OwnEventByCode(db, r.event_code, user, GENERIC)
    IN IF found = {} THEN {EVENT_NOT_FOUND_ERROR(db)}
       ELSE
       LET event == CHOOSE e \in found : TRUE
           errors == validate_weekday_input(r.start_weekday, r.end_weekday,
                                            r.start_hour, r.end_hour)
       IN IF errors # {} THEN {Response(db, 400, errors, NoOut)}
          ELSE EditTxn(db, event, r,
                 SlotGrid(daterange(r.start_weekday, r.end_weekday),
                          timerange(r.start_hour, r.end_hour)))

(***************************************************************************)
(* api/event/views.py: get_event_details                                   *)
(***************************************************************************)
DURATION_VALUES == {15, 30, 45, 60}

\* EventDetailSerializer accepts the data of the response
ValidDetails(data) ==
    /\ data.start_hour \in 0..MAX_HOUR
    /\ data.end_hour \in 0..MAX_HOUR
    /\ data.duration \in DURATION_VALUES

\* the data of the response: the hour of the first timeslot, the hour of
\* the last timeslot plus one, and the days of the first and the last
EventDetails(event, first, last, end_hour) ==
    LET common == [title |-> event.title,
                   event_type |-> IF event.date_type = SPECIFIC
                                  THEN "Date" ELSE "Week",
                   start_hour |-> first.time \div 60,
                   end_hour |-> end_hour,
                   time_zone |-> event.time_zone,
                   duration |-> event.duration]
    IN IF event.date_type = SPECIFIC
       THEN [start_date |-> first.day, end_date |-> last.day] @@ common
       ELSE [start_weekday |-> first.day, end_weekday |-> last.day] @@ common

\* a view that reports the hour of the last timeslot as the end hour
get_event_details_last_hour(db, event_code) ==
    LET found == EventByCode(db, event_code)
    IN IF found = {} THEN EVENT_NOT_FOUND_ERROR(db)
       ELSE
       LET event == CHOOSE e \in found : TRUE
           timeslots == OrderBySlot(Timeslots(db, event))
       IN IF Len(timeslots) = 0 THEN GENERIC_ERR_RESPONSE(db)
          ELSE Response(db, 200, {},
                  EventDetails(event, timeslots[1], timeslots[Len(timeslots)],
                               timeslots[Len(timeslots)].time \div 60))

get_event_details(db, event_code) ==
    LET found == EventByCode(db, event_code)
    IN IF found = {} THEN EVENT_NOT_FOUND_ERROR(db)
       ELSE
       LET event == CHOOSE e \in found : TRUE
           timeslots == OrderBySlot(Timeslots(db, event))
       IN \* timeslots.first() is None
          IF Len(timeslots) = 0 THEN GENERIC_ERR_RESPONSE(db)
          ELSE
          LET data == EventDetails(event, timeslots[1],
                         timeslots[Len(timeslots)],
                         timeslots[Len(timeslots)].time \div 60 + 1)
          IN IF ValidDetails(data) THEN Response(db, 200, {}, data)
             ELSE GENERIC_ERR_RESPONSE(db)

(***************************************************************************)
(* Requests served concurrently: the statements of add_availability, each  *)
(* a step, over PostgreSQL at READ COMMITTED                               *)
(***************************************************************************)
Procs == 1..NumTxns

\* a request: its position, its writes not yet committed, its response
Txn(pc, user, r, created, part, deleted, inserted, status) ==
    [pc |-> pc, user |-> user, r |-> r, created |-> created, part |-> part,
     deleted |-> deleted, inserted |-> inserted, status |-> status]

NoTxn == Txn("none", NoUser, <<>>, FALSE, {}, {}, {}, 0)

\* the request ends: what it wrote is discarded
Ended(t, status) ==
    [t EXCEPT !.pc = "done", !.created = FALSE, !.part = {},
              !.deleted = {}, !.inserted = {}, !.status = status]

\* the requests that hold writes not yet committed
Writing(p) == {q \in Procs \ {p} : txn[q].pc \in {"delete", "bulk", "commit"}}

\* the primary key of a stored participant row singles out the row
SameRow(a, b) ==
    a.user_event = b.user_event /\ a.user_account = b.user_account

\* a constraint that never holds two rows apart
ClashNever(a, b) == FALSE

\* UniqueConstraint unique_event_participant
AccountClash(a, b) ==
    a.user_event = b.user_event /\ a.user_account = b.user_account

\* UniqueConstraint unique_display_name_per_event
NameClash(a, b) ==
    a.user_event = b.user_event /\ a.display_name = b.display_name

Clash(a, b) == AccountClash(a, b) \/ NameClash(a, b)

ParticipantRow(t) ==
    [user_event |-> TheEventOf(t).user_event_id, user_account |-> t.user,
     display_name |-> t.r.display_name, time_zone |-> t.r.time_zone]

\* the committed rows another request is updating
BeingUpdated(p) ==
    {c \in EventParticipant :
        \E q \in Writing(p) : ~txn[q].created /\ \E x \in txn[q].part : SameRow(c, x)}

\* the write of row waits for another request to commit or roll back: its
\* row is locked, or a unique index holds an entry not yet committed
ParticipantWait(p, row, update) ==
    \/ update /\ \E c \in BeingUpdated(p) : SameRow(c, row)
    \/ \E q \in Writing(p) : \E x \in txn[q].part : Clash(row, x)
    \/ \E c \in BeingUpdated(p) : ~SameRow(c, row) /\ Clash(row, c)

\* the write of row raises IntegrityError
ParticipantViolation(p, row, update) ==
    \E c \in EventParticipant :
        /\ update => ~SameRow(c, row)
        /\ Clash(row, c)

\* view position "check": the event, check_name_available, get_event_grid
\* and the shape of the input
ConcCheck(p) ==
    /\ txn[p].pc = "check"
    /\ LET t == txn[p]
           found == EventByCode(DB, t.r.event_code)
           user_event == CHOOSE e \in found : TRUE
           grid == get_event_grid(DB, user_event)
       IN txn' = [txn EXCEPT ![p] =
            IF found = {} THEN Ended(t, 404)
            ELSE IF ~check_name_available(DB, user_event, t.user,
                                          t.r.display_name)
            THEN Ended(t, 400)
            ELSE IF grid.raised # "" THEN Ended(t, 500)
            ELSE IF \/ Len(t.r.availability) # grid.num_days
                    \/ \E i \in 1..Len(t.r.availability) :
                          Len(t.r.availability[i]) # grid.num_slots
            THEN Ended(t, 400)
            ELSE [t EXCEPT !.pc = "get"]]
    /\ UNCHANGED <<tables, today, ret, accounts>>

\* get_or_create: the first get
ConcGet(p) ==
    /\ txn[p].pc = "get"
    /\ LET row == ParticipantRow(txn[p])
       IN txn' = [txn EXCEPT ![p].pc =
                    IF \E c \in EventParticipant : SameRow(c, row)
                    THEN "update" ELSE "insert"]
    /\ UNCHANGED <<tables, today, ret, accounts>>

\* get_or_create: the create in its savepoint
ConcInsert(p) ==
    /\ txn[p].pc = "insert"
    /\ LET row == ParticipantRow(txn[p])
       IN /\ ~ParticipantWait(p, row, FALSE)
          /\ txn' = [txn EXCEPT ![p] =
                IF ParticipantViolation(p, row, FALSE)
                THEN [@ EXCEPT !.pc = "retry"]
                ELSE [@ EXCEPT !.pc = "delete", !.created = TRUE,
                               !.part = {row}]]
    /\ UNCHANGED <<tables, today, ret, accounts>>

\* get_or_create: the get after IntegrityError, which is raised again when
\* no row is found
ConcRetry(p) ==
    /\ txn[p].pc = "retry"
    /\ LET row == ParticipantRow(txn[p])
       IN txn' = [txn EXCEPT ![p] =
                    IF \E c \in EventParticipant : SameRow(c, row)
                    THEN [@ EXCEPT !.pc = "update"]
                    ELSE Ended(@, 500)]
    /\ UNCHANGED <<tables, today, ret, accounts>>

\* participant.save() of a row that existed
ConcUpdate(p) ==
    /\ txn[p].pc = "update"
    /\ LET row == ParticipantRow(txn[p])
       IN /\ ~ParticipantWait(p, row, TRUE)
          /\ txn' = [txn EXCEPT ![p] =
                IF ParticipantViolation(p, row, TRUE)
                THEN Ended(@, 500)
                ELSE [@ EXCEPT !.pc = "delete", !.part = {row}]]
    /\ UNCHANGED <<tables, today, ret, accounts>>

\* the committed availability rows of the participant row of the request;
\* a row the request created has none
StoredEntries(p) ==
    IF txn[p].created THEN {}
    ELSE EntriesOf(DB, TheEventOf(txn[p]), txn[p].user)

\* filter(event_participant=participant).delete()
ConcDelete(p) ==
    /\ txn[p].pc = "delete"
    /\ \A q \in Writing(p) : txn[q].deleted \cap StoredEntries(p) = {}
    /\ txn' = [txn EXCEPT ![p].pc = "bulk", ![p].deleted = StoredEntries(p)]
    /\ UNCHANGED <<tables, today, ret, accounts>>

\* the loop over the timeslots and bulk_create
ConcBulkCreate(p) ==
    /\ txn[p].pc = "bulk"
    /\ LET t == txn[p]
           event == TheEventOf(t)
           timeslots == get_event_grid(DB, event).timeslots
           flattened_availability == Flatten(t.r.availability)
           \* flattened_availability[i] past the end raises IndexError
           short == Len(flattened_availability) < Len(timeslots)
           rows == IF short THEN {}
                   ELSE NewAvailabilities(event, t.user, timeslots,
                                          flattened_availability)
           stored == StoredEntries(p) \ t.deleted
       IN /\ \A q \in Writing(p) :
                /\ txn[q].deleted \cap stored = {}
                /\ (~t.created /\ ~txn[q].created) =>
                      ~ \E a \in rows, b \in txn[q].inserted : SameEntry(a, b)
          /\ txn' = [txn EXCEPT ![p] =
                IF short THEN Ended(@, 500)
                ELSE IF \E a \in rows, b \in stored : SameEntry(a, b)
                THEN Ended(@, 500)
                ELSE [@ EXCEPT !.pc = "commit", !.inserted = rows]]
    /\ UNCHANGED <<tables, today, ret, accounts>>

\* the atomic block is left: the writes are committed
ConcCommit(p) ==
    /\ txn[p].pc = "commit"
    /\ LET t == txn[p]
       IN /\ EventParticipant' =
                {c \in EventParticipant :
                    t.created \/ \A x \in t.part : ~SameRow(c, x)}
                \cup t.part
          /\ EventDateAvailability' =
                IF TheEventOf(t).date_type = SPECIFIC
                THEN (EventDateAvailability \ t.deleted) \cup t.inserted
                ELSE EventDateAvailability
          /\ EventWeekdayAvailability' =
                IF TheEventOf(t).date_type = SPECIFIC
                THEN EventWeekdayAvailability
                ELSE (EventWeekdayAvailability \ t.deleted) \cup t.inserted
          /\ txn' = [txn EXCEPT ![p] = Ended(t, 201)]
    /\ UNCHANGED <<UserEvent, UrlCode, EventDateTimeslot,
                   EventWeekdayTimeslot, today, ret, accounts>>

\* the storage raises at a write statement: the block is rolled back
ConcRaise(p) ==
    /\ txn[p].pc \in {"insert", "update", "delete", "bulk"}
    /\ txn' = [txn EXCEPT ![p] = Ended(@, 500)]
    /\ UNCHANGED <<tables, today, ret, accounts>>

(***************************************************************************)
(* Requests                                                                *)
(***************************************************************************)
EventInfos ==
    {[title |-> "t1", duration |-> 15, time_zone |-> "UTC"],
     [title |-> "t2", duration |-> 30, time_zone |-> "Asia/Tokyo"]}

Profiles ==
    {[display_name |-> "ann", time_zone |-> "UTC"],
     [display_name |-> "bob", time_zone |-> "Asia/Tokyo"]}

DisplayNames == {p.display_name : p \in Profiles}

Patterns == {"none", "slot1", "last"}

\* a boolean grid of num_days rows of num_slots cells
Grid(num_days, num_slots, pattern) ==
    [d \in 1..num_days |->
        [s \in 1..num_slots |->
            CASE pattern = "none" -> FALSE
              [] pattern = "slot1" -> s = 1
              [] OTHER -> d = num_days /\ s = num_slots]]

\* a grid whose rows after the first are one hour longer
Ragged(num_days, num_slots) ==
    [d \in 1..num_days |->
        [s \in 1..(IF d = 1 THEN num_slots ELSE num_slots + MIN_SLOTS) |-> TRUE]]

AvailabilityInputs ==
    {Grid(nd, MIN_SLOTS * h, pat) :
        nd \in 1..(MaxDay + 1), h \in 1..2, pat \in Patterns}
    \cup {Ragged(2, MIN_SLOTS)}

\* the event codes in use
KnownCodes == {c.url_code : c \in UrlCode}

CreateDateRequests ==
    {[title |-> info.title, duration |-> info.duration,
      time_zone |-> info.time_zone,
      start_date |-> sd, end_date |-> ed,
      start_hour |-> sh, end_hour |-> eh, custom_code |-> cc] :
        info \in EventInfos, sd \in Days, ed \in Days,
        sh \in Hours, eh \in Hours, cc \in CustomCodes \cup {NoCode}}

CreateWeekRequests ==
    {[title |-> info.title, duration |-> info.duration,
      time_zone |-> info.time_zone,
      start_weekday |-> sd, end_weekday |-> ed,
      start_hour |-> sh, end_hour |-> eh, custom_code |-> cc] :
        info \in EventInfos, sd \in Days, ed \in Days,
        sh \in Hours, eh \in Hours, cc \in CustomCodes \cup {NoCode}}

EditDateRequest(code, info, sd, ed, sh, eh) ==
    [event_code |-> code, title |-> info.title, duration |-> info.duration,
     time_zone |-> info.time_zone, start_date |-> sd, end_date |-> ed,
     start_hour |-> sh, end_hour |-> eh]

EditWeekRequest(code, info, sd, ed, sh, eh) ==
    [event_code |-> code, title |-> info.title, duration |-> info.duration,
     time_zone |-> info.time_zone, start_weekday |-> sd, end_weekday |-> ed,
     start_hour |-> sh, end_hour |-> eh]

\* the hour ranges of requests: the valid ones and two invalid ones
HourRanges ==
    {h \in Hours \X Hours : h[1] < h[2]}
    \cup {<<MAX_HOUR - 1, MAX_HOUR - 1>>, <<MAX_HOUR, MAX_HOUR - 1>>}

CodesOf(date_type) ==
    {c.url_code : c \in {x \in UrlCode :
        \E e \in UserEvent :
            e.user_event_id = x.user_event /\ e.date_type = date_type}}

\* the creator's edits of the events of the endpoint's kind, and one
\* well-formed edit by every user of every code
EditDateCalls ==
    {[user |-> u, r |-> EditDateRequest(c, info, sd, ed, h[1], h[2])] :
        u \in Creators, c \in CodesOf(SPECIFIC), info \in EventInfos,
        sd \in Days, ed \in Days, h \in HourRanges}
    \cup {[user |-> u,
           r |-> EditDateRequest(c, info, MaxDay, MaxDay,
                                 MAX_HOUR - 1, MAX_HOUR)] :
            u \in Users, c \in KnownCodes \cup {UnknownCode},
            info \in EventInfos}

EditWeekCalls ==
    {[user |-> u, r |-> EditWeekRequest(c, info, sd, ed, h[1], h[2])] :
        u \in Creators, c \in CodesOf(GENERIC), info \in EventInfos,
        sd \in Days, ed \in Days, h \in HourRanges}
    \cup {[user |-> u,
           r |-> EditWeekRequest(c, info, MaxDay, MaxDay,
                                 MAX_HOUR - 1, MAX_HOUR)] :
            u \in Users, c \in KnownCodes \cup {UnknownCode},
            info \in EventInfos}

AddRequest(code, profile, availability) ==
    [event_code |-> code, display_name |-> profile.display_name,
     time_zone |-> profile.time_zone, availability |-> availability]

AddCalls ==
    {[user |-> u, r |-> AddRequest(c, profile, availability)] :
        u \in Users, c \in KnownCodes, profile \in Profiles,
        availability \in AvailabilityInputs}
    \cup {[user |-> u,
           r |-> AddRequest(UnknownCode, profile, Grid(1, MIN_SLOTS, "last"))] :
            u \in Users, profile \in Profiles}

CodeCalls ==
    {[user |-> u, event_code |-> c] :
        u \in Users, c \in KnownCodes \cup {UnknownCode}}

RemoveCalls ==
    {[user |-> u, r |-> [event_code |-> c, display_name |-> n]] :
        u \in Users, c \in KnownCodes \cup {UnknownCode}, n \in DisplayNames}

Succeeded(res) == res.status \in {200, 201}

\* the database becomes that of the response
Apply(res) ==
    /\ UserEvent' = res.db.UserEvent
    /\ UrlCode' = res.db.UrlCode
    /\ EventDateTimeslot' = res.db.EventDateTimeslot
    /\ EventWeekdayTimeslot' = res.db.EventWeekdayTimeslot
    /\ EventParticipant' = res.db.EventParticipant
    /\ EventDateAvailability' = res.db.EventDateAvailability
    /\ EventWeekdayAvailability' = res.db.EventWeekdayAvailability
    /\ UNCHANGED <<today, txn, ret, accounts>>

(***************************************************************************)
(* Actions: one per endpoint, each a whole request                         *)
(***************************************************************************)
CreateDateEvent ==
    /\ \E i \in EventIds : \A e \in UserEvent : e.user_event_id # i
    /\ \E user \in Creators, r \in CreateDateRequests :
        \E res \in create_date_event(DB, user, r, today) : Apply(res)

CreateWeekEvent ==
    /\ \E i \in EventIds : \A e \in UserEvent : e.user_event_id # i
    /\ \E user \in Creators, r \in CreateWeekRequests :
        \E res \in create_week_event(DB, user, r, today) : Apply(res)

EditDateEvent ==
    \E c \in EditDateCalls :
        \E res \in edit_date_event(DB, c.user, c.r, today) : Apply(res)

EditWeekEvent ==
    \E c \in EditWeekCalls :
        \E res \in edit_week_event(DB, c.user, c.r) : Apply(res)

AddAvailability ==
    \E c \in AddCalls :
        \E res \in add_availability(DB, c.user, c.r) : Apply(res)

GetSelfAvailability ==
    \E c \in CodeCalls :
        Apply(get_self_availability(DB, c.user, c.event_code))

GetAllAvailability ==
    \E c \in CodeCalls :
        \E res \in get_all_availability(DB, c.user, c.event_code) : Apply(res)

RemoveSelfAvailability ==
    \E c \in CodeCalls :
        \E res \in remove_self_availability(DB, c.user, c.event_code) :
            Apply(res)

RemoveAvailability ==
    \E c \in RemoveCalls :
        \E res \in remove_availability(DB, c.user, c.r) : Apply(res)

GetEventDetails ==
    \E c \in CodeCalls : Apply(get_event_details(DB, c.event_code))

\* midnight passes
Tick ==
    /\ today < MaxDay
    /\ today' = today + 1
    /\ UNCHANGED <<tables, txn, ret, accounts>>

Init ==
    /\ UserEvent = {}
    /\ UrlCode = {}
    /\ EventDateTimeslot = {}
    /\ EventWeekdayTimeslot = {}
    /\ EventParticipant = {}
    /\ EventDateAvailability = {}
    /\ EventWeekdayAvailability = {}
    /\ today = 0
    /\ txn = [p \in Procs |-> NoTxn]
    /\ ret = NoRet
    /\ NoAccounts

Next ==
    \/ CreateDateEvent
    \/ CreateWeekEvent
    \/ EditDateEvent
    \/ EditWeekEvent
    \/ AddAvailability
    \/ GetSelfAvailability
    \/ GetAllAvailability
    \/ RemoveSelfAvailability
    \/ RemoveAvailability
    \/ GetEventDetails
    \/ Tick

Spec == Init /\ [][Next]_vars

(***************************************************************************)
(* The requests served concurrently                                        *)
(***************************************************************************)
EmptyDB ==
    [UserEvent |-> {}, UrlCode |-> {}, EventDateTimeslot |-> {},
     EventWeekdayTimeslot |-> {}, EventParticipant |-> {},
     EventDateAvailability |-> {}, EventWeekdayAvailability |-> {}]

\* the database after the successful request
After(responses) == (CHOOSE res \in responses : Succeeded(res)).db

ConcCode == "c1"

ConcGrids == {Grid(1, MIN_SLOTS, pat) : pat \in {"slot1", "last"}}

\* an event of one day and one hour
ConcDateEvent ==
    After(create_date_event(EmptyDB, "u1",
            [title |-> "t1", duration |-> 15, time_zone |-> "UTC",
             start_date |-> 0, end_date |-> 0,
             start_hour |-> MAX_HOUR - 1, end_hour |-> MAX_HOUR,
             custom_code |-> ConcCode], 0))

ConcWeekEvent ==
    After(create_week_event(EmptyDB, "u1",
            [title |-> "t1", duration |-> 15, time_zone |-> "UTC",
             start_weekday |-> 0, end_weekday |-> 0,
             start_hour |-> MAX_HOUR - 1, end_hour |-> MAX_HOUR,
             custom_code |-> ConcCode], 0))

\* the event with u1 as participant "ann"
ConcWithAnn ==
    After(add_availability(ConcDateEvent, "u1",
            AddRequest(ConcCode,
                       [display_name |-> "ann", time_zone |-> "UTC"],
                       Grid(1, MIN_SLOTS, "slot1"))))

\* and with u2 as participant "bob"
ConcWithBoth ==
    After(add_availability(ConcWithAnn, "u2",
            AddRequest(ConcCode,
                       [display_name |-> "bob", time_zone |-> "Asia/Tokyo"],
                       Grid(1, MIN_SLOTS, "last"))))

ConcDBs == {ConcDateEvent, ConcWeekEvent, ConcWithAnn, ConcWithBoth}

ConcRequests ==
    {Txn("check", u, AddRequest(ConcCode, profile, availability),
         FALSE, {}, {}, {}, 0) :
        u \in Users, profile \in Profiles, availability \in ConcGrids}

InitConc ==
    /\ \E db \in ConcDBs :
        /\ UserEvent = db.UserEvent
        /\ UrlCode = db.UrlCode
        /\ EventDateTimeslot = db.EventDateTimeslot
        /\ EventWeekdayTimeslot = db.EventWeekdayTimeslot
        /\ EventParticipant = db.EventParticipant
        /\ EventDateAvailability = db.EventDateAvailability
        /\ EventWeekdayAvailability = db.EventWeekdayAvailability
    /\ today = 0
    /\ txn \in [Procs -> ConcRequests]
    /\ ret = NoRet
    /\ NoAccounts

NextConc ==
    \E p \in Procs :
        \/ ConcCheck(p)
        \/ ConcGet(p)
        \/ ConcInsert(p)
        \/ ConcRetry(p)
        \/ ConcUpdate(p)
        \/ ConcDelete(p)
        \/ ConcBulkCreate(p)
        \/ ConcCommit(p)
        \/ ConcRaise(p)

SpecConc == InitConc /\ [][NextConc]_vars

(***************************************************************************)
(* get_event_grid called on the timeslots of an event, whatever they are   *)
(***************************************************************************)
\* the timeslots an event may hold: the first quarter hours of the last
\* hour, on the days of Days and the day after
GridSlots ==
    {[user_event |-> 1, day |-> d, time |-> (MAX_HOUR - 1) * 60 + SLOT_MINUTES * k] :
        d \in 0..(MaxDay + 1), k \in 0..2}

GridEvent(date_type) ==
    [user_event_id |-> 1, user_account |-> "u1", title |-> "t1",
     date_type |-> date_type, duration |-> 15, time_zone |-> "UTC"]

InitGrid ==
    /\ \E date_type \in {SPECIFIC, GENERIC} :
        \E slots \in SUBSET GridSlots \ {{}} :
            /\ UserEvent = {GridEvent(date_type)}
            /\ EventDateTimeslot =
                 IF date_type = SPECIFIC THEN slots ELSE {}
            /\ EventWeekdayTimeslot =
                 IF date_type = SPECIFIC THEN {} ELSE slots
    /\ UrlCode = {}
    /\ EventParticipant = {}
    /\ EventDateAvailability = {}
    /\ EventWeekdayAvailability = {}
    /\ today = 0
    /\ txn = [p \in Procs |-> NoTxn]
    /\ ret = NoRet
    /\ NoAccounts

GetEventGrid ==
    /\ ret = NoRet
    /\ \E e \in UserEvent : ret' = get_event_grid(DB, e)
    /\ UNCHANGED <<tables, today, txn, accounts>>

NextGrid == GetEventGrid

SpecGrid == InitGrid /\ [][NextGrid]_vars

(***************************************************************************)
(* Creation requests served concurrently: the checks of the view, then its *)
(* transaction                                                             *)
(***************************************************************************)
CreateCodes == CustomCodes \cup {"c2"}

\* a creation request: its position, the code it settled on, its response
Creation(pc, user, date_type, r, url_code, status, event_id) ==
    [pc |-> pc, user |-> user, date_type |-> date_type, r |-> r,
     url_code |-> url_code, status |-> status, event_id |-> event_id]

CreationRequests ==
    {Creation("check", u, SPECIFIC,
              [title |-> "t1", duration |-> 15, time_zone |-> "UTC",
               start_date |-> 0, end_date |-> 0,
               start_hour |-> h[1], end_hour |-> h[2], custom_code |-> cc],
              NoCode, 0, 0) :
        u \in Users, cc \in CreateCodes,
        h \in {<<MAX_HOUR - 1, MAX_HOUR>>, <<MAX_HOUR, MAX_HOUR - 1>>}}
    \cup
    {Creation("check", u, GENERIC,
              [title |-> "t1", duration |-> 15, time_zone |-> "UTC",
               start_weekday |-> 0, end_weekday |-> 0,
               start_hour |-> h[1], end_hour |-> h[2], custom_code |-> cc],
              NoCode, 0, 0) :
        u \in Users, cc \in CreateCodes,
        h \in {<<MAX_HOUR - 1, MAX_HOUR>>, <<MAX_HOUR, MAX_HOUR - 1>>}}

CreationDays(t) ==
    IF t.date_type = SPECIFIC THEN daterange(t.r.start_date, t.r.end_date)
    ELSE daterange(t.r.start_weekday, t.r.end_weekday)

\* the view up to the transaction: the validation and the check of the
\* custom code
CreateCheck(p) ==
    /\ txn[p].pc = "check"
    /\ LET t == txn[p]
           errors ==
               IF t.date_type = SPECIFIC
               THEN validate_date_input(t.r.start_date, t.r.end_date,
                        t.r.start_hour, t.r.end_hour, today)
               ELSE validate_weekday_input(t.r.start_weekday,
                        t.r.end_weekday, t.r.start_hour, t.r.end_hour)
       IN txn' = [txn EXCEPT ![p] =
            IF errors # {} THEN [t EXCEPT !.pc = "done", !.status = 400]
            ELSE IF check_custom_code(DB, t.r.custom_code, today)
            THEN [t EXCEPT !.pc = "done", !.status = 400]
            ELSE [t EXCEPT !.pc = "txn", !.url_code = t.r.custom_code]]
    /\ UNCHANGED <<tables, today, ret, accounts>>

\* the transaction of the view, and its response
CreateCommit(p) ==
    /\ txn[p].pc = "txn"
    /\ LET t == txn[p]
       IN \E res \in CreateTxn(DB, t.user, t.r, t.date_type, t.url_code,
                               CreationDays(t), today) :
            /\ UserEvent' = res.db.UserEvent
            /\ UrlCode' = res.db.UrlCode
            /\ EventDateTimeslot' = res.db.EventDateTimeslot
            /\ EventWeekdayTimeslot' = res.db.EventWeekdayTimeslot
            /\ EventParticipant' = res.db.EventParticipant
            /\ EventDateAvailability' = res.db.EventDateAvailability
            /\ EventWeekdayAvailability' = res.db.EventWeekdayAvailability
            /\ txn' = [txn EXCEPT ![p] =
                 [t EXCEPT !.pc = "done", !.status = res.status,
                           !.event_id = IF Succeeded(res) THEN NewEventId(DB)
                                        ELSE 0]]
    /\ UNCHANGED <<today, ret, accounts>>

InitCreate ==
    /\ UserEvent = {}
    /\ UrlCode = {}
    /\ EventDateTimeslot = {}
    /\ EventWeekdayTimeslot = {}
    /\ EventParticipant = {}
    /\ EventDateAvailability = {}
    /\ EventWeekdayAvailability = {}
    /\ today = 0
    /\ txn \in [Procs -> CreationRequests]
    /\ ret = NoRet
    /\ NoAccounts

NextCreate ==
    \E p \in Procs :
        \/ CreateCheck(p)
        \/ CreateCommit(p)

SpecCreate == InitCreate /\ [][NextCreate]_vars

(***************************************************************************)
(* timerange applied to every pair of hours a request can carry            *)
(***************************************************************************)
AllHours == 0..MAX_HOUR

\* a call of timerange: its arguments, and the times it yielded
TimerangeCall(pc, start_hour, end_hour, times) ==
    [pc |-> pc, start_hour |-> start_hour, end_hour |-> end_hour,
     times |-> times]

InitTimerange ==
    /\ UserEvent = {}
    /\ UrlCode = {}
    /\ EventDateTimeslot = {}
    /\ EventWeekdayTimeslot = {}
    /\ EventParticipant = {}
    /\ EventDateAvailability = {}
    /\ EventWeekdayAvailability = {}
    /\ today = 0
    /\ txn = [p \in Procs |-> NoTxn]
    /\ NoAccounts
    /\ \E start_hour \in AllHours \ {MAX_HOUR}, end_hour \in AllHours :
        ret = TimerangeCall("call", start_hour, end_hour, <<>>)

Timerange ==
    /\ ret.pc = "call"
    /\ ret' = TimerangeCall("done", ret.start_hour, ret.end_hour,
                            timerange(ret.start_hour, ret.end_hour))
    /\ UNCHANGED <<tables, today, txn, accounts>>

NextTimerange == Timerange

SpecTimerange == InitTimerange /\ [][NextTimerange]_vars

(***************************************************************************)
(* api/auth/utils.py, api/auth/views.py: accounts                          *)
(***************************************************************************)
SESS_EXP_SECONDS == 3600
LONG_SESS_EXP_SECONDS == 31536000
EMAIL_CODE_EXP_SECONDS == 1800
PWD_RESET_EXP_SECONDS == 1800
MIN_LENGTH == 8

\* how often the clock is advanced, and how many values uuid4 hands out
MaxAdvances == 2
MaxUuids == 3

\* the account tables as one value
ADB ==
    [UserAccount |-> UserAccount,
     UnverifiedUserAccount |-> UnverifiedUserAccount,
     PasswordResetToken |-> PasswordResetToken,
     UserSession |-> UserSession, uuids |-> uuids]

Emails == {"a@x.org", "b@x.org"}
NoEmail == ""
NoToken == 0
NoHash == [salt |-> "", digest |-> <<>>]

\* passwords are sequences of characters
DIGITS == {"0", "1", "2", "3", "4", "5", "6", "7", "8", "9"}
UPPERS == {"A", "B", "C", "D", "E", "F", "G", "H", "I", "J", "K", "L", "M",
           "N", "O", "P", "Q", "R", "S", "T", "U", "V", "W", "X", "Y", "Z"}
LOWERS == {"a", "b", "c", "d", "e", "f", "g", "h", "i", "j", "k", "l", "m",
           "n", "o", "p", "q", "r", "s", "t", "u", "v", "w", "x", "y", "z"}
\* (the backquote, also special, has no string literal in TLA+; no password
\* below contains it)
SPECIAL_CHARACTERS ==
    {"!", "\"", "#", "$", "%", "&", "'", "(", ")", "*", "+", ",", "-", ".",
     "/", ":", ";", "<", "=", ">", "?", "@", "[", "\\", "]", "^", "_",
     "{", "|", "}", "~"}

Passwords ==
    {<<"P", "l", "a", "n", "c", "a", "k", "3", "!">>,
     <<"C", "a", "k", "e", "p", "l", "a", "n", "7", "?">>,
     <<"c", "a", "k", "e">>}

\* the errors validate_password lists
validate_password(password) ==
    (IF Len(password) < MIN_LENGTH THEN {"length"} ELSE {})
    \cup (IF Range(password) \cap DIGITS = {} THEN {"digit"} ELSE {})
    \cup (IF Range(password) \cap UPPERS = {} THEN {"uppercase"} ELSE {})
    \cup (IF Range(password) \cap LOWERS = {} THEN {"lowercase"} ELSE {})
    \cup (IF Range(password) \cap SPECIAL_CHARACTERS = {}
          THEN {"special"} ELSE {})

\* bcrypt: the hash carries its salt, and checkpw hashes with that salt
gensalt == "$2b$12$salt"
hashpw(password, salt) == [salt |-> salt, digest |-> password]
checkpw(password, hashed) == hashpw(password, hashed.salt) = hashed

\* str(uuid.uuid4()): a value never handed out before
uuid4(db) == db.uuids + 1

\* what a view sends by mail
Mail(to, subject, code) == [to |-> to, subject |-> subject, code |-> code]
NoMail == Mail(NoEmail, "", NoToken)

\* the body of a response and, beside it, the mail that was sent
Out(message, mail) ==
    [message |-> message, mail |-> mail, cookie |-> NoToken]

\* the exception handler of the account views: writes made so far stay
Failed(db) == Response(db, 500, {"general"}, Out({}, NoMail))

\* UnverifiedUserAccount.objects.filter(created_at__lt=...).delete()
PurgeUnverified(db, now) ==
    [db EXCEPT !.UnverifiedUserAccount =
        {u \in @ : ~(u.created_at < now - EMAIL_CODE_EXP_SECONDS)}]

\* PasswordResetToken.objects.filter(created_at__lt=...).delete()
PurgeResetTokens(db, now) ==
    [db EXCEPT !.PasswordResetToken =
        {t \in @ : ~(t.created_at < now - PWD_RESET_EXP_SECONDS)}]

AccountsByEmail(db, email) == {a \in db.UserAccount : a.email = email}
UnverifiedByEmail(db, email) ==
    {u \in db.UnverifiedUserAccount : u.email = email}

REGISTER_MESSAGE ==
    {"An email has been sent to your address for verification."}

register(db, now, email, password) ==
    LET s1 == PurgeUnverified(db, now)
        errors == validate_password(password)
        pwd_hash == hashpw(password, gensalt)
        ver_code == uuid4(s1)
        existing == UnverifiedByEmail(s1, email)
        s2 == IF existing # {}
              THEN [s1 EXCEPT
                      !.uuids = ver_code,
                      !.UnverifiedUserAccount =
                          (@ \ existing) \cup
                          {[u EXCEPT !.verification_code = ver_code,
                                     !.created_at = now] : u \in existing}]
              ELSE [s1 EXCEPT
                      !.uuids = ver_code,
                      !.UnverifiedUserAccount =
                          @ \cup {[verification_code |-> ver_code,
                                   email |-> email,
                                   password_hash |-> pwd_hash,
                                   created_at |-> now]}]
    IN {Failed(db)}
       \cup (IF errors # {}
             THEN {Response(s1, 400, {"password"}, Out(errors, NoMail))}
             ELSE IF AccountsByEmail(s1, email) # {}
             THEN {Failed(s1),
                   Response(s1, 200, {},
                       Out(REGISTER_MESSAGE,
                           Mail(email, "Email in Use", NoToken)))}
             ELSE {Failed(s1), Failed(s2),
                   Response(s2, 200, {},
                       Out(REGISTER_MESSAGE,
                           Mail(email, "Email Verification", ver_code)))})

RESEND_MESSAGE == {"Verification email resent."}

resend_register_email(db, now, email) ==
    LET s1 == PurgeUnverified(db, now)
        unverified_user == UnverifiedByEmail(s1, email)
    IN {Failed(db)}
       \cup (IF unverified_user = {}
             THEN {Response(s1, 200, {}, Out(RESEND_MESSAGE, NoMail))}
             ELSE {Failed(s1)} \cup
                  {Response(s1, 200, {},
                       Out(RESEND_MESSAGE,
                           Mail(email, "Email Verification",
                                u.verification_code))) :
                     u \in unverified_user})

verify_email(db, now, ver_code) ==
    LET s1 == PurgeUnverified(db, now)
        found == {u \in s1.UnverifiedUserAccount :
                     u.verification_code = ver_code}
    IN {Failed(db)}
       \cup (IF found = {}
             THEN {Response(s1, 404, {"verification_code"},
                            Out({}, NoMail))}
             ELSE
             LET unverified_user == CHOOSE u \in found : TRUE
                 new_user ==
                     [user_account_id |-> Cardinality(s1.UserAccount) + 1,
                      email |-> unverified_user.email,
                      password_hash |-> unverified_user.password_hash,
                      is_guest |-> FALSE]
             IN IF AccountsByEmail(s1, unverified_user.email) # {}
                THEN {Failed(s1)}
                ELSE {Failed(s1),
                      Response([s1 EXCEPT
                                  !.UserAccount = @ \cup {new_user},
                                  !.UnverifiedUserAccount =
                                      @ \ {unverified_user}],
                               200, {},
                               Out({"Email verified successfully."},
                                   NoMail))})

login(db, now, email, password, remember_me) ==
    LET found == AccountsByEmail(db, email)
        BAD_AUTH_RESPONSE ==
            Response(db, 400, {"general"},
                     Out({"Email or password is incorrect."}, NoMail))
    IN {Failed(db)}
       \cup (IF found = {} THEN {BAD_AUTH_RESPONSE}
             ELSE
             LET user == CHOOSE a \in found : TRUE
                 session_token == uuid4(db)
             IN IF ~checkpw(password, user.password_hash)
                THEN {BAD_AUTH_RESPONSE}
                ELSE {Response(
                         [db EXCEPT
                            !.uuids = session_token,
                            !.UserSession =
                                @ \cup {[session_token |-> session_token,
                                         user_account |-> user.user_account_id,
                                         is_extended |-> remember_me,
                                         last_used |-> now]}],
                         200, {},
                         [Out({"Login successful."}, NoMail)
                            EXCEPT !.cookie = session_token])})

RESET_MESSAGE ==
    {"An email has been sent to your address with password reset instructions."}

\* a view that tells an unknown address apart
start_password_reset_revealing(db, now, email) ==
    LET s1 == PurgeResetTokens(db, now)
    IN IF AccountsByEmail(s1, email) = {}
       THEN {Failed(db), Response(s1, 404, {"email"}, Out({}, NoMail))}
       ELSE {Failed(db), Response(s1, 200, {}, Out(RESET_MESSAGE, NoMail))}

start_password_reset(db, now, email) ==
    LET s1 == PurgeResetTokens(db, now)
        found == AccountsByEmail(s1, email)
    IN {Failed(db)}
       \cup (IF found = {}
             THEN {Response(s1, 200, {}, Out(RESET_MESSAGE, NoMail))}
             ELSE
             LET user == CHOOSE a \in found : TRUE
                 reset_token == uuid4(s1)
                 existing == {t \in s1.PasswordResetToken :
                                 t.user_account = user.user_account_id}
                 s2 == IF existing # {}
                       THEN [s1 EXCEPT
                               !.uuids = reset_token,
                               !.PasswordResetToken =
                                   (@ \ existing) \cup
                                   {[t EXCEPT !.reset_token = reset_token,
                                              !.created_at = now] :
                                      t \in existing}]
                       ELSE [s1 EXCEPT
                               !.uuids = reset_token,
                               !.PasswordResetToken =
                                   @ \cup {[reset_token |-> reset_token,
                                            user_account |->
                                                user.user_account_id,
                                            created_at |-> now]}]
             IN {Failed(s1), Failed(s2),
                 Response(s2, 200, {},
                     Out(RESET_MESSAGE,
                         Mail(email, "Reset Password", reset_token)))})

(***************************************************************************)
(* api/utils.py, api/tasks.py: sessions                                    *)
(***************************************************************************)
\* a lookup that takes every stored session for valid
get_session_unexpiring(db, now, token) ==
    {s \in db.UserSession : s.session_token = token}

\* the session of the token, if it is still valid
get_session(db, now, token) ==
    {s \in db.UserSession :
        /\ s.session_token = token
        /\ \/ (s.is_extended
               /\ s.last_used >= now - LONG_SESS_EXP_SECONDS)
           \/ (~s.is_extended
               /\ s.last_used >= now - SESS_EXP_SECONDS)}

\* session.save(): last_used is an auto_now field
SaveSession(db, now, session) ==
    [db EXCEPT !.UserSession =
        (@ \ {session}) \cup {[session EXCEPT !.last_used = now]}]

\* what a decorator hands to the view: the user, and how it was found
Auth(user, via, expired) == [user |-> user, via |-> via, expired |-> expired]
NoAuth == Auth(0, "", FALSE)

\* a guest account with an extended session
CreateGuest(db, now) ==
    LET guest_account ==
            [user_account_id |-> Cardinality(db.UserAccount) + 1,
             email |-> NoEmail, password_hash |-> NoHash, is_guest |-> TRUE]
        new_session_token == uuid4(db)
    IN [db EXCEPT
          !.uuids = new_session_token,
          !.UserAccount = @ \cup {guest_account},
          !.UserSession =
              @ \cup {[session_token |-> new_session_token,
                       user_account |-> guest_account.user_account_id,
                       is_extended |-> TRUE, last_used |-> now]}]

\* the wrapper of require_auth up to the call of the view: status 200
\* stands for the view being called with the user
require_auth(db, now, acct_token, guest_token) ==
    LET acct == IF acct_token # NoToken
                THEN get_session(db, now, acct_token) ELSE {}
        guest == IF guest_token # NoToken
                 THEN get_session(db, now, guest_token) ELSE {}
        acct_sess_expired == acct_token # NoToken /\ acct = {}
    IN {Response(db, 500, {"general"}, NoAuth)}
       \cup
       (IF acct # {}
        THEN {Response(SaveSession(db, now, session), 200, {},
                       Auth(session.user_account, "account", FALSE)) :
                session \in acct}
        ELSE IF guest # {}
        THEN {Response(SaveSession(db, now, session), 200, {},
                       Auth(session.user_account, "guest",
                            acct_sess_expired)) :
                session \in guest}
        ELSE {Response(db, 429, {"general"}, NoAuth),
              Response(CreateGuest(db, now), 200, {},
                       Auth(Cardinality(db.UserAccount) + 1, "new_guest",
                            acct_sess_expired))})

require_account_auth(db, now, acct_token) ==
    LET acct == IF acct_token # NoToken
                THEN get_session(db, now, acct_token) ELSE {}
    IN IF acct_token = NoToken
       THEN {Response(db, 401, {"general"}, NoAuth)}
       ELSE {Response(db, 500, {"general"}, NoAuth)}
            \cup
            (IF acct = {} THEN {Response(db, 401, {"general"}, NoAuth)}
             ELSE {Response(SaveSession(db, now, session), 200, {},
                            Auth(session.user_account, "account", FALSE)) :
                     session \in acct})

session_cleanup(db, now) ==
    LET regular == {s \in db.UserSession :
                       /\ ~s.is_extended
                       /\ s.last_used < now - SESS_EXP_SECONDS}
        extended == {s \in db.UserSession :
                       /\ s.is_extended
                       /\ s.last_used < now - LONG_SESS_EXP_SECONDS}
    IN [db EXCEPT !.UserSession = (@ \ regular) \ extended]

(***************************************************************************)
(* Account requests, the cleanup task and the clock                        *)
(***************************************************************************)
Tokens == 0..MaxUuids

\* the steps by which the clock moves
Deltas == {1, SESS_EXP_SECONDS, LONG_SESS_EXP_SECONDS}

\* the account tables become those of the response
ApplyAccounts(res) ==
    /\ res.db.uuids <= MaxUuids
    /\ UserAccount' = res.db.UserAccount
    /\ UnverifiedUserAccount' = res.db.UnverifiedUserAccount
    /\ PasswordResetToken' = res.db.PasswordResetToken
    /\ UserSession' = res.db.UserSession
    /\ uuids' = res.db.uuids
    /\ UNCHANGED <<tables, today, txn, ret, clock, advances>>

Register ==
    \E email \in Emails, password \in Passwords :
        \E res \in register(ADB, clock, email, password) : ApplyAccounts(res)

ResendRegisterEmail ==
    \E email \in Emails :
        \E res \in resend_register_email(ADB, clock, email) :
            ApplyAccounts(res)

VerifyEmail ==
    \E ver_code \in Tokens :
        \E res \in verify_email(ADB, clock, ver_code) : ApplyAccounts(res)

Login ==
    \E email \in Emails, password \in Passwords, remember_me \in BOOLEAN :
        \E res \in login(ADB, clock, email, password, remember_me) :
            ApplyAccounts(res)

StartPasswordReset ==
    \E email \in Emails :
        \E res \in start_password_reset(ADB, clock, email) :
            ApplyAccounts(res)

RequireAuth ==
    \E acct_token \in Tokens, guest_token \in Tokens :
        \E res \in require_auth(ADB, clock, acct_token, guest_token) :
            ApplyAccounts(res)

RequireAccountAuth ==
    \E acct_token \in Tokens :
        \E res \in require_account_auth(ADB, clock, acct_token) :
            ApplyAccounts(res)

SessionCleanup ==
    /\ UserSession' = session_cleanup(ADB, clock).UserSession
    /\ UNCHANGED <<tables, today, txn, ret, UserAccount,
                   UnverifiedUserAccount, PasswordResetToken, clock,
                   advances, uuids>>

\* time passes
Advance ==
    /\ advances < MaxAdvances
    /\ \E d \in Deltas : clock' = clock + d
    /\ advances' = advances + 1
    /\ UNCHANGED <<tables, today, txn, ret, UserAccount,
                   UnverifiedUserAccount, PasswordResetToken, UserSession,
                   uuids>>

InitAuth ==
    /\ UserEvent = {}
    /\ UrlCode = {}
    /\ EventDateTimeslot = {}
    /\ EventWeekdayTimeslot = {}
    /\ EventParticipant = {}
    /\ EventDateAvailability = {}
    /\ EventWeekdayAvailability = {}
    /\ today = 0
    /\ txn = [p \in Procs |-> NoTxn]
    /\ ret = NoRet
    /\ NoAccounts

NextAuth ==
    \/ Register
    \/ ResendRegisterEmail
    \/ VerifyEmail
    \/ Login
    \/ StartPasswordReset
    \/ RequireAuth
    \/ RequireAccountAuth
    \/ SessionCleanup
    \/ Advance

SpecAuth == InitAuth /\ [][NextAuth]_vars

(***************************************************************************)
(* add_availability requests served while the creator edits the event: the *)
(* statements of add_availability as above, the edit as one step at the    *)
(* point where its transaction commits                                     *)
(***************************************************************************)
\* an event of two days and one hour
EditDateEvent2 ==
    After(create_date_event(EmptyDB, "u1",
            [title |-> "t1", duration |-> 15, time_zone |-> "UTC",
             start_date |-> 0, end_date |-> 1,
             start_hour |-> MAX_HOUR - 1, end_hour |-> MAX_HOUR,
             custom_code |-> ConcCode], 0))

EditWeekEvent2 ==
    After(create_week_event(EmptyDB, "u1",
            [title |-> "t1", duration |-> 15, time_zone |-> "UTC",
             start_weekday |-> 0, end_weekday |-> 1,
             start_hour |-> MAX_HOUR - 1, end_hour |-> MAX_HOUR,
             custom_code |-> ConcCode], 0))

\* the event of two days with u1 as participant "ann"
EditWithAnn2 ==
    After(add_availability(EditDateEvent2, "u1",
            AddRequest(ConcCode,
                       [display_name |-> "ann", time_zone |-> "UTC"],
                       Grid(2, MIN_SLOTS, "slot1"))))

EditDBs ==
    {ConcDateEvent, ConcWithAnn, EditDateEvent2, EditWeekEvent2, EditWithAnn2}

\* submissions of one day and of two days
EditSubmissions ==
    {Txn("check", u, AddRequest(ConcCode, profile, availability),
         FALSE, {}, {}, {}, 0) :
        u \in Users, profile \in Profiles,
        availability \in {Grid(1, MIN_SLOTS, "last"),
                          Grid(2, MIN_SLOTS, "last")}}

\* the edit request of the creator: its position, and its response
EditCall(pc, user, r, status) ==
    [pc |-> pc, user |-> user, r |-> r, status |-> status]

\* edits to one day, to two days, and to two hours a day
EditRanges ==
    {<<0, 0, MAX_HOUR - 1>>, <<0, 1, MAX_HOUR - 1>>, <<1, 1, MAX_HOUR - 1>>,
     <<0, 0, MAX_HOUR - 2>>}

EditCallsOf(db) ==
    {EditCall("edit", "u1",
        IF \E e \in db.UserEvent : e.date_type = SPECIFIC
        THEN EditDateRequest(ConcCode, [title |-> "t2", duration |-> 30,
                                        time_zone |-> "UTC"],
                             g[1], g[2], g[3], MAX_HOUR)
        ELSE EditWeekRequest(ConcCode, [title |-> "t2", duration |-> 30,
                                        time_zone |-> "UTC"],
                             g[1], g[2], g[3], MAX_HOUR),
        0) : g \in EditRanges}

\* the timeslot of an availability row
SlotOf(a) == [user_event |-> a.user_event, day |-> a.day, time |-> a.time]

\* the edit waits for a submission to end: it deletes a timeslot that rows
\* not yet committed refer to, or a row whose deletion is not yet committed
EditWaits(res) ==
    LET gone == (EventDateTimeslot \cup EventWeekdayTimeslot)
                \ (res.db.EventDateTimeslot \cup res.db.EventWeekdayTimeslot)
        deleted == (EventDateAvailability \cup EventWeekdayAvailability)
                   \ (res.db.EventDateAvailability
                      \cup res.db.EventWeekdayAvailability)
    IN \E q \in Procs :
        \/ \E a \in txn[q].inserted : SlotOf(a) \in gone
        \/ txn[q].deleted \cap deleted # {}

\* edit_date_event or edit_week_event, whole
ConcEdit ==
    /\ ret # NoRet
    /\ ret.pc = "edit"
    /\ \E res \in (IF "start_date" \in DOMAIN ret.r
                   THEN edit_date_event(DB, ret.user, ret.r, today)
                   ELSE edit_week_event(DB, ret.user, ret.r)) :
        /\ ~EditWaits(res)
        /\ UserEvent' = res.db.UserEvent
        /\ UrlCode' = res.db.UrlCode
        /\ EventDateTimeslot' = res.db.EventDateTimeslot
        /\ EventWeekdayTimeslot' = res.db.EventWeekdayTimeslot
        /\ EventParticipant' = res.db.EventParticipant
        /\ EventDateAvailability' = res.db.EventDateAvailability
        /\ EventWeekdayAvailability' = res.db.EventWeekdayAvailability
        /\ ret' = [ret EXCEPT !.pc = "done", !.status = res.status]
    /\ UNCHANGED <<today, txn, accounts>>

InitEdit ==
    /\ \E db \in EditDBs :
        /\ UserEvent = db.UserEvent
        /\ UrlCode = db.UrlCode
        /\ EventDateTimeslot = db.EventDateTimeslot
        /\ EventWeekdayTimeslot = db.EventWeekdayTimeslot
        /\ EventParticipant = db.EventParticipant
        /\ EventDateAvailability = db.EventDateAvailability
        /\ EventWeekdayAvailability = db.EventWeekdayAvailability
        /\ ret \in EditCallsOf(db)
    /\ today = 0
    /\ txn \in [Procs -> EditSubmissions]
    /\ NoAccounts

NextEdit ==
    \/ ConcEdit
    \/ \E p \in Procs :
        \/ ConcCheck(p)
        \/ ConcGet(p)
        \/ ConcInsert(p)
        \/ ConcRetry(p)
        \/ ConcUpdate(p)
        \/ ConcDelete(p)
        \/ ConcBulkCreate(p)
        \/ ConcCommit(p)
        \/ ConcRaise(p)

SpecEdit == InitEdit /\ [][NextEdit]_vars

(***************************************************************************)
(* Properties                                                              *)
(***************************************************************************)
\* the rectangle of days first..last by the quarter hours of
\* [start_hour, end_hour)
Rectangle(first, last, start_hour, end_hour) ==
    {[day |-> d, time |-> 60 * start_hour + 15 * k] :
        d \in first..last, k \in 0..(4 * (end_hour - start_hour) - 1)}

TheEvent(db, event_code) == CHOOSE e \in EventByCode(db, event_code) : TRUE

SlotsOf(db, event) == {SlotKey(t) : t \in Timeslots(db, event)}

\* the entries of the event after an edit from grid A to grid B are those
\* kept on A \cap B and one "unavailable" entry per earlier participant
\* and slot of B \ A
EditedEntries(before, after, event, B) ==
    LET A == SlotsOf(before, event)
    IN /\ Availabilities(after, event) =
            {a \in Availabilities(before, event) : SlotKey(a) \in A \cap B}
            \cup {[user_event |-> event.user_event_id,
                   user_account |-> p.user_account,
                   day |-> k.day, time |-> k.time, is_available |-> FALSE] :
                    p \in Participants(before, event), k \in B \ A}
       /\ \A a, b \in Availabilities(after, event) : SameEntry(a, b) => a = b
       /\ Participants(after, event) = Participants(before, event)

\* C1: a successful edit_date_event / edit_week_event from grid A to grid B
\* keeps the entries on A \cap B as they were, removes those on A \ B and
\* creates one entry with is_available = FALSE for every earlier participant
\* on every slot of B \ A, and nothing else
C1_EditAddRemove ==
    /\ \A c \in EditDateCalls :
        \A res \in edit_date_event(DB, c.user, c.r, today) :
            Succeeded(res) =>
                /\ EditedEntries(DB, res.db, TheEvent(DB, c.r.event_code),
                        Rectangle(c.r.start_date, c.r.end_date,
                                  c.r.start_hour, c.r.end_hour))
                /\ res.db.EventWeekdayAvailability = EventWeekdayAvailability
    /\ \A c \in EditWeekCalls :
        \A res \in edit_week_event(DB, c.user, c.r) :
            Succeeded(res) =>
                /\ EditedEntries(DB, res.db, TheEvent(DB, c.r.event_code),
                        Rectangle(c.r.start_weekday, c.r.end_weekday,
                                  c.r.start_hour, c.r.end_hour))
                /\ res.db.EventDateAvailability = EventDateAvailability

\* an edit that keeps an available entry, removes an entry and creates one
EditKeepsRemovesCreates(before, res, event) ==
    /\ Succeeded(res)
    /\ res.out.to_delete # {}
    /\ res.out.to_add # {}
    /\ \E a \in Availabilities(before, event) :
          a.is_available /\ a \in Availabilities(res.db, event)
    /\ \E a \in Availabilities(before, event) :
          SlotKey(a) \in res.out.to_delete
    /\ \E a \in Availabilities(res.db, event) : SlotKey(a) \in res.out.to_add

C1_Witness ==
    /\ \E c \in EditDateCalls :
        \E res \in edit_date_event(DB, c.user, c.r, today) :
            EditKeepsRemovesCreates(DB, res, TheEvent(DB, c.r.event_code))
    /\ EventDateAvailability # {}

C1_WitnessWeek ==
    \E c \in EditWeekCalls :
        \E res \in edit_week_event(DB, c.user, c.r) :
            EditKeepsRemovesCreates(DB, res, TheEvent(DB, c.r.event_code))

\* the timeslots at the day-major positions (d, s) of the true cells, as
\* get_self_availability reports the timeslots of the event's kind
TrueCells(db, event, availability) ==
    LET grid == get_event_grid(db, event)
    IN {IF event.date_type = SPECIFIC
        THEN SlotKey(grid.timeslots[(d - 1) * grid.num_slots + s])
        ELSE get_weekday_date(grid.timeslots[(d - 1) * grid.num_slots + s].day,
                              grid.timeslots[(d - 1) * grid.num_slots + s].time) :
            <<d, s>> \in {x \in (1..grid.num_days) \X (1..grid.num_slots) :
                            availability[x[1]][x[2]]}}

ReadsBack(db, user, r) ==
    LET got == get_self_availability(db, user, r.event_code)
    IN /\ got.status = 200
       /\ Range(got.out.available_dates) =
            TrueCells(db, TheEvent(db, r.event_code), r.availability)
       /\ Len(got.out.available_dates) =
            Cardinality(Range(got.out.available_dates))

\* C2: after add_availability succeeds for an actor, get_self_availability
\* by the same actor succeeds and reports exactly the timeslots of the true
\* cells of the submitted grid, for date and weekday events alike
C2_RoundTrip ==
    \A c \in AddCalls :
        \A res \in add_availability(DB, c.user, c.r) :
            Succeeded(res) => ReadsBack(res.db, c.user, c.r)

\* the bound of the rule: the current start date when it is before today,
\* else today
EarliestAllowed(existing_start_date, user_date) ==
    IF existing_start_date < user_date THEN existing_start_date
    ELSE user_date

\* C3: edit_date_event rejects a start_date as too early exactly when it
\* is earlier than the event's current start date if that is before today,
\* and than today otherwise
C3_EarliestStartRule ==
    \A c \in EditDateCalls :
        LET found == OwnEventByCode(DB, c.r.event_code, c.user, SPECIFIC)
        IN found # {} =>
            LET event == CHOOSE e \in found : TRUE
                ordered == OrderBySlot(Timeslots(DB, event))
            IN \A res \in edit_date_event(DB, c.user, c.r, today) :
                (res.status = 400 /\ "start_date" \in res.err)
                <=> c.r.start_date < EarliestAllowed(ordered[1].day, today)

\* C5: every participant of every event has exactly one availability entry
\* for each timeslot of the event's grid, and no entry for any other
\* timeslot; no entry belongs to anyone but a participant
C5_CompleteCoverage ==
    \A e \in UserEvent :
        /\ \A p \in Participants(DB, e) : \A k \in SlotsOf(DB, e) :
            Cardinality({a \in Availabilities(DB, e) :
                            a.user_account = p.user_account
                            /\ SlotKey(a) = k}) = 1
        /\ \A a \in {x \in EventDateAvailability \cup EventWeekdayAvailability :
                        x.user_event = e.user_event_id} :
            /\ a \in Availabilities(DB, e)
            /\ SlotKey(a) \in SlotsOf(DB, e)
            /\ \E p \in Participants(DB, e) : p.user_account = a.user_account

\* two participants with entries, one of them available somewhere, on a
\* grid of two days
C5_Witness ==
    \E e \in UserEvent :
        /\ Cardinality(Participants(DB, e)) = 2
        /\ Cardinality({k.day : k \in SlotsOf(DB, e)}) = 2
        /\ \E a \in Availabilities(DB, e) : a.is_available
        /\ \E a \in Availabilities(DB, e) : ~a.is_available

\* the entries a submission stores: the cell (d, s) of the grid for the
\* timeslot at the day-major position (d, s)
SubmittedEntries(db, event, user, availability) ==
    LET grid == get_event_grid(db, event)
    IN {[user_event |-> event.user_event_id, user_account |-> user,
         day |-> grid.timeslots[(x[1] - 1) * grid.num_slots + x[2]].day,
         time |-> grid.timeslots[(x[1] - 1) * grid.num_slots + x[2]].time,
         is_available |-> availability[x[1]][x[2]]] :
            x \in (1..grid.num_days) \X (1..grid.num_slots)}

\* the stored rows of the actor are those of the submission alone
LatestOnly(before, after, event, user, r) ==
    /\ EntriesOf(after, event, user) =
         SubmittedEntries(before, event, user, r.availability)
    /\ Availabilities(after, event) \ EntriesOf(after, event, user) =
         Availabilities(before, event) \ EntriesOf(before, event, user)
    /\ {p \in Participants(after, event) : p.user_account = user} =
         {[user_event |-> event.user_event_id, user_account |-> user,
           display_name |-> r.display_name, time_zone |-> r.time_zone]}

\* C6: after a successful add_availability the stored entries of the actor
\* are exactly those of the submitted grid, with one participant row for
\* (event, actor), and submitting the same grid again leaves the same rows
C6_Resubmission ==
    \A c \in AddCalls :
        \A res \in add_availability(DB, c.user, c.r) :
            Succeeded(res) =>
                /\ LatestOnly(DB, res.db, TheEvent(DB, c.r.event_code),
                              c.user, c.r)
                /\ \A again \in add_availability(res.db, c.user, c.r) :
                    Succeeded(again) => again.db = res.db

\* a participant with stored entries submits a different grid
C6_Witness ==
    \E c \in AddCalls :
        \E res \in add_availability(DB, c.user, c.r) :
            /\ Succeeded(res)
            /\ ~res.out.new
            /\ EntriesOf(DB, TheEvent(DB, c.r.event_code), c.user) # {}
            /\ EntriesOf(res.db, TheEvent(DB, c.r.event_code), c.user)
                 # EntriesOf(DB, TheEvent(DB, c.r.event_code), c.user)
            /\ \E again \in add_availability(res.db, c.user, c.r) :
                  Succeeded(again)

\* C7: an add_availability, edit_date_event or edit_week_event call that
\* returns an error leaves every table as it was before the call
C7_AtomicFailure ==
    /\ \A c \in AddCalls :
        \A res \in add_availability(DB, c.user, c.r) :
            ~Succeeded(res) => res.db = DB
    /\ \A c \in EditDateCalls :
        \A res \in edit_date_event(DB, c.user, c.r, today) :
            ~Succeeded(res) => res.db = DB
    /\ \A c \in EditWeekCalls :
        \A res \in edit_week_event(DB, c.user, c.r) :
            ~Succeeded(res) => res.db = DB

\* a participant with stored entries whose resubmission under a new name
\* fails in storage, and an edit that fails in storage
C7_Witness ==
    /\ \E c \in AddCalls :
        \E res \in add_availability(DB, c.user, c.r) :
            /\ res.status = 500
            /\ \E p \in EventParticipant :
                  /\ p.user_account = c.user
                  /\ p.display_name # c.r.display_name
            /\ EntriesOf(DB, TheEvent(DB, c.r.event_code), c.user) # {}
    /\ \E c \in AddCalls :
        \E res \in add_availability(DB, c.user, c.r) :
            res.status = 400 /\ res.err = {"display_name"}
    /\ \E c \in AddCalls :
        \E res \in add_availability(DB, c.user, c.r) :
            res.status = 400 /\ res.err = {"availability"}
    /\ \E c \in EditDateCalls :
        \E res \in edit_date_event(DB, c.user, c.r, today) : res.status = 500
    /\ \E c \in EditDateCalls :
        \E res \in edit_date_event(DB, c.user, c.r, today) : res.status = 400

NameExclusive ==
    \A a, b \in EventParticipant :
        (a.user_event = b.user_event /\ a.display_name = b.display_name)
            => a = b

\* a request that ends with an error leaves the tables as they were
FailedWritesNothing ==
    \A p \in Procs :
        (txn[p].pc # "done" /\ txn'[p].pc = "done" /\ txn'[p].status # 201)
            => UNCHANGED tables

\* C4: no two participants of an event have the same display_name, whatever
\* the interleaving of the add_availability requests, and a request that
\* ends with an error writes nothing
C4_NameExclusive == []NameExclusive /\ [][FailedWritesNothing]_vars

\* two actors asked for the same name at the same time: one holds it, the
\* other got the generic error
C4_Witness ==
    \E p, q \in Procs :
        /\ txn[p].user # txn[q].user
        /\ txn[p].r.display_name = txn[q].r.display_name
        /\ txn[p].pc = "done" /\ txn[p].status = 201
        /\ txn[q].pc = "done" /\ txn[q].status = 500
        /\ \E c \in EventParticipant :
              /\ c.user_account = txn[p].user
              /\ c.display_name = txn[p].r.display_name
        /\ ~ \E c \in EventParticipant : c.user_account = txn[q].user

\* the requests of the actor that have succeeded
Committed(u) ==
    {p \in Procs :
        txn[p].user = u /\ txn[p].pc = "done" /\ txn[p].status = 201}

\* C8: whatever the interleaving of the add_availability requests of an
\* actor for an event, there is at most one participant row for (event,
\* actor) and one entry per timeslot, and once a request has succeeded the
\* entries are those of one successful submission in full
C8_SameActor ==
    \A e \in UserEvent : \A u \in Users :
        /\ Cardinality({c \in Participants(DB, e) : c.user_account = u}) <= 1
        /\ \A a, b \in EntriesOf(DB, e, u) : SameEntry(a, b) => a = b
        /\ Committed(u) # {} =>
            \E p \in Committed(u) :
                /\ EntriesOf(DB, e, u) =
                     SubmittedEntries(DB, e, u, txn[p].r.availability)
                /\ ParticipantRow(txn[p]) \in EventParticipant

\* two requests of one actor with different grids and names have both
\* succeeded
C8_Witness ==
    \E p, q \in Procs :
        /\ p # q
        /\ txn[p].user = txn[q].user
        /\ txn[p].r.availability # txn[q].r.availability
        /\ txn[p].r.display_name # txn[q].r.display_name
        /\ Committed(txn[p].user) = {p, q}

\* the grid of the event is the rectangle of the days first..last by the
\* quarter hours of [start_hour, end_hour)
GridIs(db, event, first, last, start_hour, end_hour) ==
    LET grid == get_event_grid(db, event)
    IN /\ grid.raised = ""
       /\ grid.num_days = last - first + 1
       /\ grid.num_slots = 4 * (end_hour - start_hour)
       /\ Len(grid.timeslots) = grid.num_days * grid.num_slots
       /\ SlotsOf(db, event) = Rectangle(first, last, start_hour, end_hour)

FreeEventId == \E i \in EventIds : \A e \in UserEvent : e.user_event_id # i

\* C9: for an event created by create_date_event or create_week_event,
\* get_event_grid raises nothing and returns the number of requested days
\* and 4 * (end_hour - start_hour) slots, the timeslots being the same times
\* on every day
C9_CreatedRectangle ==
    FreeEventId =>
        /\ \A user \in Creators, r \in CreateDateRequests :
            \A res \in create_date_event(DB, user, r, today) :
                Succeeded(res) =>
                    GridIs(res.db, TheEvent(res.db, res.out.event_code),
                           r.start_date, r.end_date, r.start_hour, r.end_hour)
        /\ \A user \in Creators, r \in CreateWeekRequests :
            \A res \in create_week_event(DB, user, r, today) :
                Succeeded(res) =>
                    GridIs(res.db, TheEvent(res.db, res.out.event_code),
                           r.start_weekday, r.end_weekday,
                           r.start_hour, r.end_hour)

\* an event of two days whose grid ends before midnight
C9_Witness ==
    \E e \in UserEvent :
        LET grid == get_event_grid(DB, e)
        IN /\ grid.raised = ""
           /\ grid.num_days = 2
           /\ grid.num_slots = MIN_SLOTS
           /\ \A k \in SlotsOf(DB, e) : k.time < (MAX_HOUR - 1) * 60
           /\ EventParticipant = {}

\* C10: after a successful edit_date_event / edit_week_event the timeslots
\* of the event are exactly the requested rectangle, and get_event_grid
\* returns its dimensions
C10_EditedGrid ==
    /\ \A c \in EditDateCalls :
        \A res \in edit_date_event(DB, c.user, c.r, today) :
            Succeeded(res) =>
                GridIs(res.db, TheEvent(res.db, c.r.event_code),
                       c.r.start_date, c.r.end_date,
                       c.r.start_hour, c.r.end_hour)
    /\ \A c \in EditWeekCalls :
        \A res \in edit_week_event(DB, c.user, c.r) :
            Succeeded(res) =>
                GridIs(res.db, TheEvent(res.db, c.r.event_code),
                       c.r.start_weekday, c.r.end_weekday,
                       c.r.start_hour, c.r.end_hour)

\* an edit that both removes and adds timeslots
C10_Witness ==
    \E c \in EditWeekCalls :
        \E res \in edit_week_event(DB, c.user, c.r) :
            /\ Succeeded(res)
            /\ res.out.to_delete # {}
            /\ res.out.to_add # {}
            /\ SlotsOf(res.db, TheEvent(res.db, c.r.event_code))
                 # SlotsOf(DB, TheEvent(DB, c.r.event_code))

\* the set of timeslots is the same times of day on every day from the
\* first to the last
IsRectangle(slots) ==
    \E first \in 0..(MaxDay + 1), last \in 0..(MaxDay + 1) :
        \E times \in SUBSET {k.time : k \in slots} :
            slots = {[day |-> d, time |-> t] : d \in first..last, t \in times}

DaysOf(db, event) == {k.day : k \in SlotsOf(db, event)}
TimesOf(db, event) == {k.time : k \in SlotsOf(db, event)}

ShapeMismatch(db, event, availability) ==
    \/ Len(availability) # Cardinality(DaysOf(db, event))
    \/ \E i \in 1..Len(availability) :
          Len(availability[i]) # Cardinality(TimesOf(db, event))

ShapeError(res) == res.status = 400 /\ res.err = {"availability"}

\* C12: for an existing event and a free display name, add_availability
\* answers with the availability shape error exactly when the number of
\* rows differs from the days of the event's current grid or a row's length
\* from its slots per day; a grid of that shape is stored, unless the
\* storage raises
C12_ShapeValidation ==
    \A c \in AddCalls :
        LET found == EventByCode(DB, c.r.event_code)
            event == CHOOSE e \in found : TRUE
            responses == add_availability(DB, c.user, c.r)
        IN (/\ found # {}
            /\ check_name_available(DB, event, c.user, c.r.display_name)) =>
            /\ \A res \in responses :
                  ShapeError(res) <=> ShapeMismatch(DB, event, c.r.availability)
            /\ ~ShapeMismatch(DB, event, c.r.availability) =>
                  /\ \E res \in responses : Succeeded(res)
                  /\ \A res \in responses : Succeeded(res) \/ res.status = 500

\* an event of two days of four slots with a participant: a grid of that
\* shape is accepted, one with a longer second row and one of a single day
\* are refused
C12_Witness ==
    /\ \E e \in UserEvent :
          /\ Cardinality(DaysOf(DB, e)) = 2
          /\ Cardinality(TimesOf(DB, e)) = MIN_SLOTS
          /\ Participants(DB, e) # {}
    /\ \E c \in AddCalls :
          /\ \E res \in add_availability(DB, c.user, c.r) : Succeeded(res)
    /\ \E c \in AddCalls :
          /\ Len(c.r.availability) = 2
          /\ Len(c.r.availability[1]) = MIN_SLOTS
          /\ Len(c.r.availability[2]) # MIN_SLOTS
          /\ \E res \in add_availability(DB, c.user, c.r) : ShapeError(res)
    /\ \E c \in AddCalls :
          /\ c.r.availability = Grid(1, MIN_SLOTS, "last")
          /\ \E res \in add_availability(DB, c.user, c.r) : ShapeError(res)

\* the names of the participants whose entry for timeslot k is available
NamesAt(db, event, k) ==
    {p.display_name : p \in
        {x \in Participants(db, event) :
            [user_event |-> event.user_event_id,
             user_account |-> x.user_account, day |-> k.day,
             time |-> k.time, is_available |-> TRUE]
                \in Availabilities(db, event)}}

\* q lists the names of S once each in ascending order
Ascending(q, S) ==
    /\ {q[i] : i \in DOMAIN q} = S
    /\ Len(q) = Cardinality(S)
    /\ \A i, j \in DOMAIN q : i < j => NameLess(q[i], q[j])

\* the grid has the dimensions of get_event_grid, and its cell (d, s) the
\* names of cell(k) for the s-th timeslot k of the d-th day, ascending
GridOfNames(db, event, availability, cell(_)) ==
    LET grid == get_event_grid(db, event)
    IN /\ grid.raised = ""
       /\ Len(availability) = grid.num_days
       /\ \A d \in 1..Len(availability) :
            /\ Len(availability[d]) = grid.num_slots
            /\ \A s \in 1..Len(availability[d]) :
                  Ascending(availability[d][s],
                      cell(grid.timeslots[(d - 1) * grid.num_slots + s]))

\* C13: for an event with a participant, get_all_availability returns a
\* grid of num_days days of num_slots slots whose cell (d, s) lists, once
\* each and in ascending order, the display names of the participants
\* available at the s-th timeslot of the d-th day
C13_AggregationContent ==
    \A c \in CodeCalls :
        \A e \in EventByCode(DB, c.event_code) :
            Participants(DB, e) # {} =>
                \A res \in get_all_availability(DB, c.user, c.event_code) :
                    /\ res.status = 200
                    /\ LET at(k) == NamesAt(DB, e, k)
                       IN GridOfNames(DB, e, res.out.availability, at)

\* two participants, a timeslot at which both are available and one at
\* which nobody is, on a grid of two days
C13_Witness ==
    \E e \in UserEvent :
        /\ Cardinality(DaysOf(DB, e)) = 2
        /\ \E k \in SlotsOf(DB, e) : Cardinality(NamesAt(DB, e, k)) = 2
        /\ \E k \in SlotsOf(DB, e) : NamesAt(DB, e, k) = {}
        /\ \E c \in CodeCalls :
              \E res \in get_all_availability(DB, c.user, c.event_code) :
                  res.status = 200

\* C14: get_all_availability returns the display names of the event's
\* participants, once each, in ascending order
C14_ParticipantsAscending ==
    \A c \in CodeCalls :
        \A e \in EventByCode(DB, c.event_code) :
            \A res \in get_all_availability(DB, c.user, c.event_code) :
                /\ res.status = 200
                /\ Ascending(res.out.participants,
                             {p.display_name : p \in Participants(DB, e)})

\* C15: for an event without participants get_all_availability returns no
\* participant and a grid of num_days days of num_slots empty lists
C15_NoParticipants ==
    \A c \in CodeCalls :
        \A e \in EventByCode(DB, c.event_code) :
            Participants(DB, e) = {} =>
                \A res \in get_all_availability(DB, c.user, c.event_code) :
                    /\ res.status = 200
                    /\ res.out.participants = <<>>
                    /\ LET nobody(k) == {}
                       IN GridOfNames(DB, e, res.out.availability, nobody)

\* an event of two days of eight slots that has no participant
C15_Witness ==
    /\ EventParticipant = {}
    /\ \E e \in UserEvent :
          /\ Cardinality(DaysOf(DB, e)) = 2
          /\ Cardinality(TimesOf(DB, e)) = 2 * MIN_SLOTS
    /\ \E c \in CodeCalls :
          \E res \in get_all_availability(DB, c.user, c.event_code) :
              res.status = 200 /\ Len(res.out.availability[1]) = 2 * MIN_SLOTS

\* the participant rows of the actor in the event
RowsOf(db, event, user) ==
    {p \in Participants(db, event) : p.user_account = user}

\* the name is held by no other participant of the event
HeldByNoOther(db, event, user, display_name) ==
    \A p \in Participants(db, event) :
        p.display_name = display_name => p.user_account = user

\* another actor submits under the name and succeeds
Takes(db, event, other, display_name, code) ==
    \E c \in AddCalls :
        /\ c.user = other
        /\ c.r.event_code = code
        /\ c.r.display_name = display_name
        /\ \E res \in add_availability(db, c.user, c.r) : Succeeded(res)

\* C16: when a participant of an event submits a grid of the event's shape
\* under a display name held by no other participant, the submission
\* succeeds unless the storage raises; the number of participants stays,
\* the participant's name and time zone become the submitted ones, and
\* another actor can then submit under the previous name
C16_Rename ==
    \A c \in AddCalls :
        \A e \in EventByCode(DB, c.r.event_code) :
            (/\ RowsOf(DB, e, c.user) # {}
             /\ HeldByNoOther(DB, e, c.user, c.r.display_name)
             /\ ~ShapeMismatch(DB, e, c.r.availability)) =>
                LET responses == add_availability(DB, c.user, c.r)
                IN /\ \E res \in responses : Succeeded(res)
                   /\ \A res \in responses :
                        /\ Succeeded(res) \/ res.status = 500
                        /\ Succeeded(res) =>
                            /\ Cardinality(Participants(res.db, e)) =
                                 Cardinality(Participants(DB, e))
                            /\ RowsOf(res.db, e, c.user) =
                                 {[user_event |-> e.user_event_id,
                                   user_account |-> c.user,
                                   display_name |-> c.r.display_name,
                                   time_zone |-> c.r.time_zone]}
                            /\ \A old \in RowsOf(DB, e, c.user) :
                                 \A other \in Users \ {c.user} :
                                    old.display_name # c.r.display_name =>
                                        Takes(res.db, e, other,
                                              old.display_name, c.r.event_code)

\* the only participant of an event renames itself, and another actor takes
\* the released name
C16_Witness ==
    \E c \in AddCalls :
        \E e \in EventByCode(DB, c.r.event_code) :
            /\ Cardinality(Participants(DB, e)) = 1
            /\ \E old \in RowsOf(DB, e, c.user) :
                  /\ old.display_name # c.r.display_name
                  /\ old.time_zone # c.r.time_zone
                  /\ \E res \in add_availability(DB, c.user, c.r) :
                        /\ Succeeded(res)
                        /\ \E other \in Users \ {c.user} :
                              Takes(res.db, e, other, old.display_name,
                                    c.r.event_code)

\* the call may edit the event: the caller created it and it is of the
\* endpoint's kind
MayEdit(db, user, event_code, date_type) ==
    \E e \in EventByCode(db, event_code) :
        e.user_account = user /\ e.date_type = date_type

\* the event-not-found error, nothing written
NotFoundUnchanged(res) == res = EVENT_NOT_FOUND_ERROR(DB)

EditsOnlyOwnKind ==
    /\ \A c \in EditDateCalls :
        ~MayEdit(DB, c.user, c.r.event_code, SPECIFIC) =>
            \A res \in edit_date_event(DB, c.user, c.r, today) :
                NotFoundUnchanged(res)
    /\ \A c \in EditWeekCalls :
        ~MayEdit(DB, c.user, c.r.event_code, GENERIC) =>
            \A res \in edit_week_event(DB, c.user, c.r) :
                NotFoundUnchanged(res)

KindKept ==
    \A e \in UserEvent : \A f \in UserEvent' :
        e.user_event_id = f.user_event_id => e.date_type = f.date_type

\* C17: edit_date_event / edit_week_event called by anyone but the creator
\* of the event, or on an event of the other kind, returns the
\* event-not-found error and leaves every table as it was; no request
\* changes the kind of an event
C17_CreatorOnlyEdit == []EditsOnlyOwnKind /\ [][KindKept]_vars

\* an event with a participant that another user, and its creator through
\* the endpoint of the other kind, try to edit
C17_Witness ==
    /\ EventParticipant # {}
    /\ \E c \in EditDateCalls \cup EditWeekCalls :
          /\ EventByCode(DB, c.r.event_code) # {}
          /\ \A e \in EventByCode(DB, c.r.event_code) :
                e.user_account # c.user
    /\ \E c \in EditDateCalls :
          \E e \in EventByCode(DB, c.r.event_code) :
              /\ e.user_account = c.user
              /\ e.date_type = GENERIC
              /\ \E res \in edit_date_event(DB, c.user, c.r, today) :
                    res.status = 404

\* the creation requests that returned success
Created == {p \in Procs : txn[p].pc = "done" /\ txn[p].status = 201}

EventsHaveTimeslots ==
    \A e \in UserEvent :
        /\ Timeslots(DB, e) # {}
        /\ \A t \in EventDateTimeslot \cup EventWeekdayTimeslot :
              t.user_event = e.user_event_id => t \in Timeslots(DB, e)

\* the responses of every creation request
CreationResponses ==
    UNION {create_date_event(DB, user, r, today) :
              user \in Creators, r \in CreateDateRequests}
    \cup UNION {create_week_event(DB, user, r, today) :
                  user \in Creators, r \in CreateWeekRequests}

\* the response is a success whose code resolves to one event, the new
\* one, which has timeslots
CreatedWhole(res) ==
    \E e \in res.db.UserEvent :
        /\ e \notin UserEvent
        /\ res.db.UserEvent = UserEvent \cup {e}
        /\ EventByCode(res.db, res.out.event_code) = {e}
        /\ Timeslots(res.db, e) # {}

\* C19: every event has at least one timeslot and only timeslots of its
\* own kind; a creation that succeeds leaves the event with its timeslots
\* and a URL code that resolves to it, one that fails leaves every table
\* as it was
C19_AtomicCreation ==
    /\ EventsHaveTimeslots
    /\ FreeEventId =>
          \A res \in CreationResponses :
              IF Succeeded(res) THEN CreatedWhole(res) ELSE res.db = DB

\* an event of the weekday kind that was created and then edited
C19_Witness ==
    \E e \in UserEvent :
        /\ e.date_type = GENERIC
        /\ e.title = "t2"
        /\ Cardinality(DaysOf(DB, e)) = 2
        /\ EventByCode(DB, "c1") = {e}

\* the fields create_date_event must report
DateErrors(r) ==
    (IF r.start_date < today THEN {"start_date"} ELSE {})
    \cup (IF r.end_date < r.start_date THEN {"end_date"} ELSE {})
    \cup (IF r.end_hour <= r.start_hour THEN {"end_hour"} ELSE {})

\* the fields create_week_event must report
WeekErrors(r) ==
    (IF r.end_weekday < r.start_weekday THEN {"end_weekday"} ELSE {})
    \cup (IF r.end_hour <= r.start_hour THEN {"end_hour"} ELSE {})

Refused(res, fields) == res = Response(DB, 400, fields, NoOut)

\* C20: create_date_event creates an event only when start_date is not
\* before today, start_date <= end_date and start_hour < end_hour, and
\* create_week_event only when start_weekday <= end_weekday and start_hour <
\* end_hour; any other input is answered with the errors of its fields and
\* nothing is created
C20_CreationValidation ==
    FreeEventId =>
        /\ \A user \in Creators, r \in CreateDateRequests :
            \A res \in create_date_event(DB, user, r, today) :
                /\ Succeeded(res) => DateErrors(r) = {}
                /\ DateErrors(r) # {} => Refused(res, DateErrors(r))
        /\ \A user \in Creators, r \in CreateWeekRequests :
            \A res \in create_week_event(DB, user, r, today) :
                /\ Succeeded(res) => WeekErrors(r) = {}
                /\ WeekErrors(r) # {} => Refused(res, WeekErrors(r))

\* no event yet, and requests of each kind of error: a start date before
\* today, an end before the start, an empty range of hours
C20_Witness ==
    /\ FreeEventId
    /\ today > 0
    /\ \E r \in CreateDateRequests :
          /\ DateErrors(r) = {"start_date", "end_hour"}
          /\ \E res \in create_date_event(DB, "u1", r, today) :
                res.status = 400
    /\ \E r \in CreateDateRequests :
          /\ DateErrors(r) = {"end_date"}
          /\ \E res \in create_date_event(DB, "u1", r, today) :
                res.status = 400
    /\ \E r \in CreateDateRequests :
          /\ DateErrors(r) = {}
          /\ \E res \in create_date_event(DB, "u1", r, today) : Succeeded(res)
    /\ \E r \in CreateWeekRequests :
          /\ WeekErrors(r) = {"end_weekday"}
          /\ \E res \in create_week_event(DB, "u1", r, today) :
                res.status = 400

\* C21: for all hours 0 <= start_hour < end_hour <= 24, timerange yields
\* exactly the 4 * (end_hour - start_hour) times start_hour:00,
\* start_hour:15, ... in steps of 15 minutes, the last one (end_hour-1):45,
\* and no time outside [start_hour:00, end_hour:00)
C21_TimerangeResult ==
    (ret.pc = "done" /\ ret.start_hour < ret.end_hour) =>
        /\ Len(ret.times) = 4 * (ret.end_hour - ret.start_hour)
        /\ \A i \in 1..Len(ret.times) :
            ret.times[i] = ret.start_hour * 60 + 15 * (i - 1)
        /\ ret.times[Len(ret.times)] = (ret.end_hour - 1) * 60 + 45
        /\ \A i \in 1..Len(ret.times) :
            /\ ret.times[i] >= ret.start_hour * 60
            /\ ret.times[i] < ret.end_hour * 60

\* the range that ends at midnight has been computed: 23:00 .. 23:45
C21_Witness ==
    /\ ret.pc = "done"
    /\ ret.start_hour = 23
    /\ ret.end_hour = 24
    /\ ret.times = <<1380, 1395, 1410, 1425>>

\* a range that ends before midnight has been computed
C21_WitnessDay ==
    /\ ret.pc = "done"
    /\ ret.start_hour = 0
    /\ ret.end_hour = 2
    /\ Len(ret.times) = 8

\* C22: a successful add_availability reports a new participant if and only
\* if the actor had no participant row in the event before the call; either
\* way the actor has exactly one participant row in the event afterwards
C22_NewParticipantFlag ==
    \A c \in AddCalls :
        \A e \in EventByCode(DB, c.r.event_code) :
            \A res \in add_availability(DB, c.user, c.r) :
                Succeeded(res) =>
                    /\ res.out.new <=> (RowsOf(DB, e, c.user) = {})
                    /\ Cardinality(RowsOf(res.db, e, c.user)) = 1

\* a participant of an event resubmits and is reported as updated, while an
\* actor who has not joined the same event is reported as added
C22_Witness ==
    \E c \in AddCalls, d \in AddCalls :
        \E e \in EventByCode(DB, c.r.event_code) :
            /\ d.r.event_code = c.r.event_code
            /\ RowsOf(DB, e, c.user) # {}
            /\ RowsOf(DB, e, d.user) = {}
            /\ \E res \in add_availability(DB, c.user, c.r) :
                  Succeeded(res) /\ ~res.out.new
            /\ \E res \in add_availability(DB, d.user, d.r) :
                  Succeeded(res) /\ res.out.new

\* C23: get_self_availability and remove_self_availability, called for an
\* existing event in which the actor has no participant row, return the 404
\* error they return for an unknown event code and change nothing; they
\* return a 404 error in these two situations only
C23_NotFoundReporting ==
    \A c \in CodeCalls :
        LET found == EventByCode(DB, c.event_code)
            joined == \E e \in found : RowsOf(DB, e, c.user) # {}
            responses == {get_self_availability(DB, c.user, c.event_code)}
                         \cup remove_self_availability(DB, c.user, c.event_code)
        IN \A res \in responses :
            /\ (found # {} /\ ~joined) => (res.status = 404 /\ res.db = DB)
            /\ res.status = 404 => (found = {} \/ ~joined)

\* the database without the participant row and without the participant's
\* availability entries, everything else as it was
Without(db, p) ==
    [db EXCEPT
        !.EventParticipant = @ \ {p},
        !.EventDateAvailability =
            {a \in @ : ~(a.user_event = p.user_event
                         /\ a.user_account = p.user_account)},
        !.EventWeekdayAvailability =
            {a \in @ : ~(a.user_event = p.user_event
                         /\ a.user_account = p.user_account)}]

\* the removal deleted exactly the participant and its entries, and every
\* other actor can submit under the name it held
Withdrawn(res, e, p, code) ==
    /\ res.db.EventParticipant = DB.EventParticipant \ {p}
    /\ EntriesOf(res.db, e, p.user_account) = {}
    /\ \A u \in Users \ {p.user_account} :
        EntriesOf(res.db, e, u) = EntriesOf(DB, e, u)
    /\ Timeslots(res.db, e) = Timeslots(DB, e)
    /\ res.db.UserEvent = DB.UserEvent /\ res.db.UrlCode = DB.UrlCode
    /\ res.db = Without(DB, p)
    /\ \A u \in Users \ {p.user_account} :
        Takes(res.db, e, u, p.display_name, code)

\* the participant withdraws
SelfWithdrawal ==
    \A c \in CodeCalls :
        \A e \in EventByCode(DB, c.event_code) :
            \A p \in RowsOf(DB, e, c.user) :
                LET responses ==
                        remove_self_availability(DB, c.user, c.event_code)
                IN /\ \E res \in responses : Succeeded(res)
                   /\ \A res \in responses :
                        Succeeded(res) => Withdrawn(res, e, p, c.event_code)

\* the creator removes the participant of the given name
CreatorRemoval ==
    \A c \in RemoveCalls :
        \A e \in EventByCode(DB, c.r.event_code) :
            \A p \in {x \in Participants(DB, e) :
                        x.display_name = c.r.display_name} :
                \A res \in remove_availability(DB, c.user, c.r) :
                    Succeeded(res) => Withdrawn(res, e, p, c.r.event_code)

\* a submission by an actor who has not joined, then that actor's withdrawal
SubmitThenWithdraw ==
    \A c \in AddCalls :
        \A e \in EventByCode(DB, c.r.event_code) :
            RowsOf(DB, e, c.user) = {} =>
                \A res \in add_availability(DB, c.user, c.r) :
                    Succeeded(res) =>
                        LET responses == remove_self_availability(
                                res.db, c.user, c.r.event_code)
                        IN /\ \E res2 \in responses : Succeeded(res2)
                           /\ \A res2 \in responses :
                                Succeeded(res2) =>
                                    /\ Participants(res2.db, e) =
                                         Participants(DB, e)
                                    /\ Availabilities(res2.db, e) =
                                         Availabilities(DB, e)
                                    /\ res2.db = DB

\* C24: a successful remove_self_availability, or remove_availability by the
\* creator, deletes exactly the targeted participant row and all of its
\* availability entries, leaves the timeslots and every other participant's
\* row and entries unchanged, and frees the display name for another actor;
\* a submission by a new actor followed by that actor's
\* remove_self_availability restores the participants and entries of the
\* event
C24_Withdrawal ==
    /\ SelfWithdrawal
    /\ CreatorRemoval
    /\ SubmitThenWithdraw

\* one of two participants with stored entries withdraws, and the creator
\* can remove the other one
C24_Witness ==
    \E c \in CodeCalls :
        \E e \in EventByCode(DB, c.event_code) :
            /\ Cardinality(Participants(DB, e)) = 2
            /\ \A u \in Users : EntriesOf(DB, e, u) # {}
            /\ \E p \in RowsOf(DB, e, c.user) :
                \E res \in remove_self_availability(DB, c.user, c.event_code) :
                    /\ Succeeded(res)
                    /\ Withdrawn(res, e, p, c.event_code)
            /\ \E r \in RemoveCalls :
                /\ r.r.event_code = c.event_code
                /\ \E res \in remove_availability(DB, r.user, r.r) :
                    /\ Succeeded(res)
                    /\ Cardinality(Participants(res.db, e)) = 1

\* C25: remove_availability deletes the participant of the given display
\* name only when the caller is the creator of the event; for any other
\* caller it returns the 403 error and leaves the database unchanged, whether
\* or not a participant of that name exists
C25_CreatorOnlyRemoval ==
    \A c \in RemoveCalls :
        \A e \in EventByCode(DB, c.r.event_code) :
            \A res \in remove_availability(DB, c.user, c.r) :
                /\ e.user_account # c.user =>
                    /\ res.status = 403
                    /\ res.err = {"general"}
                    /\ res.db = DB
                /\ res.db # DB =>
                    /\ e.user_account = c.user
                    /\ Succeeded(res)
                    /\ \E p \in Participants(DB, e) :
                        /\ p.display_name = c.r.display_name
                        /\ res.db.EventParticipant = DB.EventParticipant \ {p}

\* an actor who did not create the event is refused the removal of an
\* existing participant and of a name nobody holds, and the creator removes
\* the same participant
C25_Witness ==
    \E c \in RemoveCalls, d \in RemoveCalls, k \in RemoveCalls :
        \E e \in EventByCode(DB, c.r.event_code) :
            /\ d.r.event_code = c.r.event_code
            /\ k.r = c.r
            /\ e.user_account # c.user
            /\ d.user = c.user
            /\ k.user = e.user_account
            /\ \E p \in Participants(DB, e) : p.display_name = c.r.display_name
            /\ ~ \E p \in Participants(DB, e) : p.display_name = d.r.display_name
            /\ \A res \in remove_availability(DB, c.user, c.r) : res.status = 403
            /\ \A res \in remove_availability(DB, d.user, d.r) : res.status = 403
            /\ \E res \in remove_availability(DB, k.user, k.r) :
                  Succeeded(res) /\ res.db # DB

\* what the client sees of a response
Visible(res) ==
    [status |-> res.status, err |-> res.err, message |-> res.out.message]

\* the account tables had the address never been registered
Stranger(db, email) ==
    LET ids == {a.user_account_id : a \in AccountsByEmail(db, email)}
    IN [db EXCEPT
          !.UserAccount = @ \ AccountsByEmail(db, email),
          !.UnverifiedUserAccount = @ \ UnverifiedByEmail(db, email),
          !.PasswordResetToken = {t \in @ : t.user_account \notin ids},
          !.UserSession = {s \in @ : s.user_account \notin ids}]

\* the responses are those of the other run, and all answered requests get
\* one and the same response
SameResponses(known, unknown) ==
    /\ {Visible(res) : res \in known} = {Visible(res) : res \in unknown}
    /\ Cardinality({Visible(res) : res \in known \cup unknown}
                   \ {Visible(Failed(ADB))}) = 1

OneEntryPerTimeslot ==
    \A e \in UserEvent :
        \A p \in Participants(DB, e) :
            LET entries == EntriesOf(DB, e, p.user_account)
            IN /\ {SlotOf(a) : a \in entries} = Timeslots(DB, e)
               /\ Cardinality(entries) = Cardinality(Timeslots(DB, e))

\* C27: whenever an edit of the event commits while add_availability runs,
\* a submission that commits writes as many entries as the submitted grid
\* has cells (numDays * numSlots), and once the submissions and the edit
\* have finished every participant has exactly one entry per current
\* timeslot of the event
C27_SubmissionDuringEdit ==
    /\ \A p \in Procs :
        txn[p].pc = "commit" =>
            Cardinality(txn[p].inserted) = Len(Flatten(txn[p].r.availability))
    /\ ((\A p \in Procs : txn[p].pc = "done") /\ ret.pc = "done") =>
            OneEntryPerTimeslot

\* get_event_details answers with the bounds first..last and
\* [start_hour, end_hour) for the event of the code
DetailsAre(db, event_code, date_type, first, last, start_hour, end_hour) ==
    LET res == get_event_details(db, event_code)
    IN /\ res.status = 200
       /\ res.db = db
       /\ res.out.start_hour = start_hour
       /\ res.out.end_hour = end_hour
       /\ IF date_type = SPECIFIC
          THEN /\ res.out.event_type = "Date"
               /\ res.out.start_date = first
               /\ res.out.end_date = last
               /\ "start_weekday" \notin DOMAIN res.out
          ELSE /\ res.out.event_type = "Week"
               /\ res.out.start_weekday = first
               /\ res.out.end_weekday = last
               /\ "start_date" \notin DOMAIN res.out

\* C28: after a successful creation or edit of an event, of either kind and
\* in whatever state the edit finds the event, get_event_details returns
\* the first and last day and the start and end hour of the request, an
\* end hour of 24 included
C28_BoundsRoundTrip ==
    /\ FreeEventId =>
        /\ \A user \in Creators, r \in CreateDateRequests :
            \A res \in create_date_event(DB, user, r, today) :
                Succeeded(res) =>
                    DetailsAre(res.db, res.out.event_code, SPECIFIC,
                               r.start_date, r.end_date,
                               r.start_hour, r.end_hour)
        /\ \A user \in Creators, r \in CreateWeekRequests :
            \A res \in create_week_event(DB, user, r, today) :
                Succeeded(res) =>
                    DetailsAre(res.db, res.out.event_code, GENERIC,
                               r.start_weekday, r.end_weekday,
                               r.start_hour, r.end_hour)
    /\ \A c \in EditDateCalls :
        \A res \in edit_date_event(DB, c.user, c.r, today) :
            Succeeded(res) =>
                DetailsAre(res.db, c.r.event_code, SPECIFIC,
                           c.r.start_date, c.r.end_date,
                           c.r.start_hour, c.r.end_hour)
    /\ \A c \in EditWeekCalls :
        \A res \in edit_week_event(DB, c.user, c.r) :
            Succeeded(res) =>
                DetailsAre(res.db, c.r.event_code, GENERIC,
                           c.r.start_weekday, c.r.end_weekday,
                           c.r.start_hour, c.r.end_hour)

\* an event whose grid ends before midnight is edited to end at midnight,
\* with other days, and get_event_details reports the new bounds
C28_Witness ==
    \E c \in EditDateCalls :
        \E res \in edit_date_event(DB, c.user, c.r, today) :
            LET before == get_event_details(DB, c.r.event_code)
            IN /\ Succeeded(res)
               /\ before.status = 200
               /\ before.out.end_hour < MAX_HOUR
               /\ c.r.end_hour = MAX_HOUR
               /\ before.out.start_date # c.r.start_date
               /\ DetailsAre(res.db, c.r.event_code, SPECIFIC,
                             c.r.start_date, c.r.end_date,
                             c.r.start_hour, c.r.end_hour)

\* the expiry window of the session's type
Window(s) ==
    IF s.is_extended THEN LONG_SESS_EXP_SECONDS ELSE SESS_EXP_SECONDS

\* a session of the token is stored and was last used within its window
Valid(db, now, token) ==
    \E s \in db.UserSession :
        s.session_token = token /\ now - s.last_used <= Window(s)

\* the response accepts the token: the view runs for the account of the
\* session, whose last_used is now the current time, so that the session
\* is still valid a whole window later
Accepted(res, token, via) ==
    /\ res.status = 200
    /\ res.out.via = via
    /\ \E s \in res.db.UserSession :
        /\ s.session_token = token
        /\ s.user_account = res.out.user
        /\ s.last_used = clock
        /\ get_session(res.db, clock + Window(s), token) = {s}
    /\ \A s \in UserSession :
        s.session_token # token => s \in res.db.UserSession

\* C29: get_session and the decorators accept a session token if and only
\* if the time since last_used does not exceed the window of the session's
\* type; an accepted request sets last_used to the current time; and
\* session_cleanup deletes no session that get_session accepts
C29_SessionValidity ==
    /\ \A token \in Tokens \ {NoToken} :
        /\ get_session(ADB, clock, token) # {} <=> Valid(ADB, clock, token)
        /\ \A res \in require_account_auth(ADB, clock, token) :
            /\ res.status \in {200, 401, 500}
            /\ res.status = 200 =>
                 Valid(ADB, clock, token) /\ Accepted(res, token, "account")
            /\ res.status = 401 => ~Valid(ADB, clock, token) /\ res.db = ADB
        /\ Valid(ADB, clock, token) =>
             \E res \in require_account_auth(ADB, clock, token) :
                 res.status = 200
        /\ \A res \in require_auth(ADB, clock, token, NoToken) :
            /\ res.out.via = "account" =>
                 Valid(ADB, clock, token) /\ Accepted(res, token, "account")
            /\ (Valid(ADB, clock, token) /\ res.status # 500) =>
                 res.out.via = "account"
        /\ \A res \in require_auth(ADB, clock, NoToken, token) :
            /\ res.out.via = "guest" =>
                 Valid(ADB, clock, token) /\ Accepted(res, token, "guest")
            /\ (Valid(ADB, clock, token) /\ res.status # 500) =>
                 res.out.via = "guest"
    /\ \A s \in UserSession :
        s \notin session_cleanup(ADB, clock).UserSession =>
            /\ ~Valid(ADB, clock, s.session_token)
            /\ get_session(ADB, clock, s.session_token) = {}

\* one second after its window a regular session is rejected and cleaned
\* up, while the extended session of the same age is accepted and kept
C29_Witness ==
    \E s \in UserSession, x \in UserSession :
        /\ ~s.is_extended
        /\ x.is_extended
        /\ clock - s.last_used = SESS_EXP_SECONDS + 1
        /\ clock - x.last_used = SESS_EXP_SECONDS + 1
        /\ get_session(ADB, clock, s.session_token) = {}
        /\ s \notin session_cleanup(ADB, clock).UserSession
        /\ x \in session_cleanup(ADB, clock).UserSession
        /\ \E res \in require_account_auth(ADB, clock, x.session_token) :
              Accepted(res, x.session_token, "account")

\* a regular session used exactly at the end of its window is accepted
C29_WitnessBoundary ==
    \E s \in UserSession :
        /\ ~s.is_extended
        /\ clock - s.last_used = SESS_EXP_SECONDS
        /\ \E res \in require_account_auth(ADB, clock, s.session_token) :
              Accepted(res, s.session_token, "account")

\* an extended session is rejected one second after a year
C29_WitnessExtended ==
    \E s \in UserSession :
        /\ s.is_extended
        /\ clock - s.last_used = LONG_SESS_EXP_SECONDS + 1
        /\ get_session(ADB, clock, s.session_token) = {}
        /\ s \notin session_cleanup(ADB, clock).UserSession

\* C30: the account created by verify_email has the password of the
\* register call that issued the redeemed verification code, also when that
\* call replaced the code of an earlier registration of the same address;
\* the replaced code is not redeemable any more
C30_PasswordBinding ==
    \A email \in Emails, password \in Passwords :
        \A res \in register(ADB, clock, email, password) :
            (res.status = 200 /\ res.out.mail.code # NoToken) =>
                /\ \A v \in verify_email(res.db, clock, res.out.mail.code) :
                    v.status = 200 =>
                        \E a \in AccountsByEmail(v.db, email) :
                            checkpw(password, a.password_hash)
                /\ \A u \in UnverifiedByEmail(ADB, email) :
                    \A v \in verify_email(res.db, clock, u.verification_code) :
                        v.status \in {404, 500}

====
